---- MODULE Spec2Model ----
(***************************************************************************)
(* Session orchestration layer of the multi-session WhatsApp service:      *)
(* the startup pacer (ConnectionStaggerer over a p-queue of concurrency    *)
(* 1), the session registry (WhatsAppManager), the per-account connection  *)
(* instance (WhatsAppInstance.init and its connection.update / creds.update*)
(* handlers) and the per-instance credential-save mutex; and the message   *)
(* side of an instance: the process-wide MessageDeduper, the inbound       *)
(* pipeline of the messages.upsert handler with the PostgresMessageWriter, *)
(* and the conversation cache with its listing.                            *)
(*                                                                         *)
(* Time is kept as ages that saturate at delayMs: the only comparison the  *)
(* program and the properties make against time is "has delayMs elapsed".  *)
(***************************************************************************)
EXTENDS Integers, Sequences, FiniteSets

\* ---------------------------------------------------------------- bounds
MaxTasks == 3          \* schedule() calls of the pacer on its own
MaxObjs == 2           \* WhatsAppInstance objects ever constructed
MaxReinits == 1        \* init() calls made by close handlers, over all objects
MaxRemoves == 1        \* removeInstance calls that reach instance.logout()
MaxSockets == 2        \* credential saves: sockets one object's init() calls make
MaxCredUpdates == 3    \* credential saves: creds.update events of one object
MaxNow == 90           \* deduper: seconds the deduper's clock runs for
DedupeStep == 30       \* deduper: seconds one step of its clock takes
ClockStep == 1000      \* milliseconds one Tick advances the clock by
MaxMessages == 2       \* inbound: messages delivered, over all messages.upsert events
MaxCached == 3         \* conversation cache: messages the events carry, over all events
MaxLimit == 2          \* conversation cache: the largest limit a listing asks for
maxCachedMessagesPerChat == 2  \* MAX_CACHED_MESSAGES_PER_CHAT of the environment
MaxQr == 2             \* one instance: pairing challenges its sockets emit
MaxSends == 2          \* one instance: POST /messages/send requests for it
MaxKeyed == 3          \* identities: messages.upsert messages keyed so far
MaxChatEvents == 3     \* chat records: chat events applied so far

\* ------------------------------------------------------ program constants
delayMs == 3000        \* ConnectionStaggerer constructor default
concurrency == 1       \* new PQueue({ concurrency: 1 })
loggedOut == 401       \* DisconnectReason.loggedOut
ttlSeconds == 60       \* MessageDeduper constructor default

\* Session identifiers, and the status codes a close may carry (0: the close
\* carries no error, statusCode is undefined).
Ids == {"a", "b"}
CloseCodes == {0, 401, 408}

\* Message ids (msg.key.id), and the value that stands for "no time".
MsgIds == {"m1", "m2"}
Never == -1

VARIABLES
    queue,        \* p-queue: tasks added and not started yet, oldest first
    slots,        \* p-queue: the running wrappers, [task, phase, left]
    sinceStart,   \* ms since the latest task/init start, saturating at delayMs
    sinceSettle,  \* pacer on its own: ms since the latest task settled, saturating
    nTasks,       \* pacer on its own: number of schedule() calls so far
    outcome,      \* pacer on its own: task -> "queued" | "running" | "ok" | "failed"
    startLog,     \* pacer on its own: one record per task start, in start order
    booted,       \* bootstrap() has run restoreSessions
    instances,    \* WhatsAppManager.instances: id -> object (0: no entry)
    sid,          \* the objects constructed so far: object -> its sessionId
    initPc,       \* object -> where its running init() is suspended, or "idle"
    initCount,    \* object -> number of init() calls made on it
    schedCount,   \* object -> number of staggerer.schedule calls made for it
    sockDefined,  \* object -> this.sock is set
    conn,         \* object -> the socket its latest init() made: "none", "up", "closed"
    cleanup,      \* object -> fs.remove(sessionPath) of its logout close
    dir,          \* id -> the session directory exists
    removes,      \* removeInstance calls awaiting sock.logout(): [obj, gen]
    nRemoves,     \* number of such calls so far
    rets,         \* id -> objects the observed getInstance(id) calls returned
    nCalls,       \* id -> number of observed calls (counted up to 2)
    socks,        \* one object: sockets its init() calls made so far
    saves,        \* one object: its atomicSave calls, oldest first, [sock, st]
    dnow,         \* deduper: Date.now(), in seconds
    dcache,       \* deduper: NodeCache data, message id -> expiry time (Never: no entry)
    markedAt,     \* deduper: message id -> time of the latest call that returned false
    lastCall,     \* deduper: the latest shouldIgnore call, [id, ret, at, prevMark, expiry]
    events,       \* inbound: the messages.upsert handler calls, in arrival order
    sessionCache, \* inbound: PostgresMessageWriter.sessionCache, session -> "unset" | "null" | "info"
    rows,         \* inbound: the rows of et_messages, in insertion order
    storeCalls,   \* inbound: message id -> dedupe windows of its storeInboundMessage calls
    hooks,        \* inbound: message id -> dedupe windows of its 'message' webhooks
    scache,       \* inbound: session -> the cache a deduper of that session alone would hold
    winStart,     \* inbound: message id -> start of its latest dedupe window
    cross,        \* inbound: [sess, id] dropped by the shared deduper only
    chats,        \* conversation cache: the keys of this.chats
    messagesByChat, \* conversation cache: key -> its messages in Map insertion order
    nCached,      \* conversation cache: messages the events so far carried
    lastEvicted,  \* conversation cache: the entries the latest event's overflow branch deleted
    ipc,          \* one instance: its init(): "queued" on the pacer, "running" or "idle"
    inits,        \* one instance: number of init() calls so far
    lastInit,     \* one instance: how its latest init() ended: "none", "returned", "threw"
    sock,         \* one instance: this.sock, the number of a socket (0: undefined)
    ws,           \* one instance: the sockets made, [state, user], in the order made
    qr,           \* one instance: this.qr
    lastError,    \* one instance: this.lastError
    emitted,      \* one instance: dispatchWebhook calls so far, [qr, open]
    folder,       \* one instance: its session folder: "absent", "present", "removing"
    registered,   \* one instance: it is the entry of its id in the registry
    loggingOut,   \* one instance: the socket removeInstance awaits sock.logout() of (0: none)
    sends,        \* one instance: the POST /messages/send requests for its id, oldest first
    keyed,        \* identities: per accepted message, [remoteJid, remoteJidAlt, cached, lead]
    chatInfo,     \* chat records: this.chats, key -> [present, cts, lm]
    nChatEvents,  \* chat records: number of chat events applied so far
    fetches,      \* one instance: how the version fetch of each init() so far ended
    credAccess    \* credential directory: the access in progress outside the mutex

pacerVars == <<queue, slots, sinceStart, sinceSettle>>
harnessVars == <<nTasks, outcome, startLog>>
regVars == <<booted, instances, sid, initPc, initCount, schedCount, sockDefined,
             conn, cleanup, dir, removes, nRemoves, rets, nCalls, socks, saves,
             dnow, dcache, markedAt, lastCall,
             events, sessionCache, rows, storeCalls, hooks, scache, winStart, cross,
             chats, messagesByChat, nCached, lastEvicted,
             ipc, inits, lastInit, sock, ws, qr, lastError, emitted, folder,
             registered, loggingOut, sends,
             keyed, chatInfo, nChatEvents, fetches, credAccess>>
credVars == <<socks, saves>>
dedupeVars == <<dnow, dcache, markedAt, lastCall>>
inboundVars == <<events, sessionCache, rows, storeCalls, hooks, scache, winStart, cross>>
cacheVars == <<chats, messagesByChat, nCached, lastEvicted>>
\* identities keyed, chat records, version fetches, credential directory
lateVars == <<keyed, chatInfo, nChatEvents, fetches, credAccess>>
moreVars == <<inboundVars, cacheVars, lateVars>>
sessVars == <<ipc, inits, lastInit, sock, ws, qr, lastError, emitted, folder,
              registered, loggingOut, sends>>
\* what the pacer, the registry and the credential saves leave alone
extVars == <<dedupeVars, moreVars, sessVars>>
vars == <<queue, slots, sinceStart, sinceSettle, nTasks, outcome, startLog,
          booted, instances, sid, initPc, initCount, schedCount, sockDefined,
          conn, cleanup, dir, removes, nRemoves, rets, nCalls, socks, saves,
          dnow, dcache, markedAt, lastCall,
          events, sessionCache, rows, storeCalls, hooks, scache, winStart, cross,
          chats, messagesByChat, nCached, lastEvicted,
          ipc, inits, lastInit, sock, ws, qr, lastError, emitted, folder,
          registered, loggingOut, sends,
          keyed, chatInfo, nChatEvents, fetches, credAccess>>

\* the variables of the pacer, the registry and the credential saves
baseVars == <<queue, slots, sinceStart, sinceSettle, nTasks, outcome, startLog,
              booted, instances, sid, initPc, initCount, schedCount, sockDefined,
              conn, cleanup, dir, removes, nRemoves, rets, nCalls, socks, saves>>

\* what the deduper, the inbound pipeline and the conversation cache leave alone
coreVars == <<baseVars, sessVars, lateVars>>

Min(a, b) == IF a < b THEN a ELSE b
Max(a, b) == IF a > b THEN a ELSE b

\* ------------------------------------------------------------ the pacer
\* PQueue with concurrency 1 and equal priorities: a task is started when
\* one is waiting and fewer than `concurrency` wrappers are pending.
\* started = 0 when nothing was started.
TryToStartAnotherUnlimited(q, s) ==
    IF Len(q) > 0
    THEN [queue |-> Tail(q),
          slots |-> s \cup {[task |-> Head(q), phase |-> "task", left |-> 0]},
          started |-> Head(q)]
    ELSE [queue |-> q, slots |-> s, started |-> 0]

TryToStartAnother(q, s) ==
    IF Len(q) > 0 /\ Cardinality(s) < concurrency
    THEN [queue |-> Tail(q),
          slots |-> s \cup {[task |-> Head(q), phase |-> "task", left |-> 0]},
          started |-> Head(q)]
    ELSE [queue |-> q, slots |-> s, started |-> 0]

\* queue.add(wrapper): enqueue, then try to start (synchronously).
PQAdd(q, s, t) == TryToStartAnother(Append(q, t), s)

\* the wrapper of task t settled: its slot is freed and the next one starts.
PQNext(q, s, t) == TryToStartAnother(q, {x \in s : x.task # t})

\* ConnectionStaggerer.schedule's wrapper, after `await task()` resolved:
\* it now awaits setTimeout(resolve, delayMs).
BeginDelayZero(s, t) ==
    {IF x.task = t THEN [x EXCEPT !.phase = "delay", !.left = 0] ELSE x : x \in s}

BeginDelay(s, t) ==
    {IF x.task = t THEN [x EXCEPT !.phase = "delay", !.left = delayMs] ELSE x : x \in s}

\* ConnectionStaggerer.schedule's wrapper when `await task()` rejected: the
\* rejection leaves the wrapper at once, no timer is armed.
WrapperOnTaskFailure(q, s, t) == PQNext(q, s, t)

Running(t) == \E x \in slots : x.task = t /\ x.phase = "task"
Delaying(t) == \E x \in slots : x.task = t /\ x.phase = "delay"
TimerDue(t) == \E x \in slots : x.task = t /\ x.phase = "delay" /\ x.left = 0

AgeSlots(s, d) == {[x EXCEPT !.left = Max(x.left - d, 0)] : x \in s}

\* The clock advances by d milliseconds.
Advance(d) ==
    /\ slots' = AgeSlots(slots, d)
    /\ sinceStart' = Min(sinceStart + d, delayMs)
    /\ sinceSettle' = Min(sinceSettle + d, delayMs)
    /\ ~(sinceStart = delayMs /\ sinceSettle = delayMs /\ AgeSlots(slots, d) = slots)
    /\ UNCHANGED <<queue, harnessVars, regVars>>

\* The pacer on its own is clocked in steps of ClockStep.
Tick == Advance(ClockStep)

\* --------------------------------------------- the pacer on its own
\* Tasks are numbered in the order schedule() is called. A task body takes
\* any time and either resolves or rejects.
Tasks == 1..MaxTasks

\* One record per task start: the ages read at the instant of the start.
LogStart(r, ageStart, ageSettle) ==
    IF r.started = 0 THEN startLog
    ELSE Append(startLog, [task |-> r.started,
                           sinceStart |-> ageStart,
                           sinceSettle |-> ageSettle])

MarkStart(o, r) ==
    IF r.started = 0 THEN o ELSE [o EXCEPT ![r.started] = "running"]

ScheduleTask ==
    /\ nTasks < MaxTasks
    /\ LET r == PQAdd(queue, slots, nTasks + 1) IN
        /\ nTasks' = nTasks + 1
        /\ queue' = r.queue
        /\ slots' = r.slots
        /\ outcome' = MarkStart(outcome, r)
        /\ startLog' = LogStart(r, sinceStart, sinceSettle)
        /\ sinceStart' = IF r.started = 0 THEN sinceStart ELSE 0
        /\ UNCHANGED <<sinceSettle, regVars>>

TaskResolves(t) ==
    /\ Running(t)
    /\ slots' = BeginDelay(slots, t)
    /\ outcome' = [outcome EXCEPT ![t] = "ok"]
    /\ sinceSettle' = 0
    /\ UNCHANGED <<queue, sinceStart, nTasks, startLog, regVars>>

TaskRejects(t) ==
    /\ Running(t)
    /\ LET r == WrapperOnTaskFailure(queue, slots, t) IN
        /\ queue' = r.queue
        /\ slots' = r.slots
        /\ outcome' = MarkStart([outcome EXCEPT ![t] = "failed"], r)
        /\ startLog' = LogStart(r, sinceStart, 0)
        /\ sinceStart' = IF r.started = 0 THEN sinceStart ELSE 0
        /\ sinceSettle' = 0
        /\ UNCHANGED <<nTasks, regVars>>

\* setTimeout(resolve, delayMs) fired: the wrapper resolves, p-queue moves on.
TimerFires(t) ==
    /\ TimerDue(t)
    /\ LET r == PQNext(queue, slots, t) IN
        /\ queue' = r.queue
        /\ slots' = r.slots
        /\ outcome' = MarkStart(outcome, r)
        /\ startLog' = LogStart(r, sinceStart, sinceSettle)
        /\ sinceStart' = IF r.started = 0 THEN sinceStart ELSE 0
        /\ UNCHANGED <<sinceSettle, nTasks, regVars>>

ObjIds == 1..MaxObjs

RegInit ==
    /\ booted = FALSE
    /\ instances = [i \in Ids |-> 0]
    /\ sid = <<>>
    /\ initPc = [o \in ObjIds |-> "idle"]
    /\ initCount = [o \in ObjIds |-> 0]
    /\ schedCount = [o \in ObjIds |-> 0]
    /\ sockDefined = [o \in ObjIds |-> FALSE]
    /\ conn = [o \in ObjIds |-> "none"]
    /\ cleanup = [o \in ObjIds |-> "none"]
    /\ removes = {}
    /\ nRemoves = 0
    /\ rets = [i \in Ids |-> {}]
    /\ nCalls = [i \in Ids |-> 0]

PacerOnlyInit ==
    /\ queue = <<>>
    /\ slots = {}
    /\ sinceStart = delayMs
    /\ sinceSettle = delayMs
    /\ nTasks = 0
    /\ outcome = [t \in Tasks |-> "queued"]
    /\ startLog = <<>>

CredsInit ==
    /\ socks = 0
    /\ saves = <<>>

NoCall == [id |-> "none", ret |-> FALSE, at |-> 0, prevMark |-> Never, expiry |-> Never]

DedupeInit ==
    /\ dnow = 0
    /\ dcache = [k \in MsgIds |-> Never]
    /\ markedAt = [k \in MsgIds |-> Never]
    /\ lastCall = NoCall

Sessions == {"s1", "s2"}

InboundInit ==
    /\ events = <<>>
    /\ sessionCache = [s \in Sessions |-> "unset"]
    /\ rows = <<>>
    /\ storeCalls = [k \in MsgIds |-> <<>>]
    /\ hooks = [k \in MsgIds |-> <<>>]
    /\ scache = [s \in Sessions |-> [k \in MsgIds |-> Never]]
    /\ winStart = [k \in MsgIds |-> Never]
    /\ cross = {}

\* The two identity forms of one counterpart: phone-number JID and LID; NoAlt
\* stands for a key without remoteJidAlt.
PN == "60123456789@s.whatsapp.net"
LID == "77001122@lid"
NoAlt == "undefined"
Jids == {PN, LID}

CacheInit ==
    /\ chats = {}
    /\ messagesByChat = [j \in Jids |-> <<>>]
    /\ nCached = 0
    /\ lastEvicted = {}

\* One WhatsAppInstance as getInstance leaves it: constructed, registered,
\* its init() queued on the pacer.
SessInit ==
    /\ ipc = "queued"
    /\ inits = 0
    /\ lastInit = "none"
    /\ sock = 0
    /\ ws = <<>>
    /\ qr = "undefined"
    /\ lastError = "undefined"
    /\ emitted = [qr |-> 0, open |-> 0]
    /\ folder = "absent"
    /\ registered = TRUE
    /\ loggingOut = 0
    /\ sends = <<>>

\* nothing keyed, no chat record, no version fetch yet
LateInit ==
    /\ keyed = <<>>
    /\ chatInfo = [j \in Jids |-> [present |-> FALSE, cts |-> 0, lm |-> 0]]
    /\ nChatEvents = 0
    /\ fetches = <<>>
    /\ credAccess = "none"

ExtInit ==
    /\ DedupeInit
    /\ InboundInit
    /\ CacheInit
    /\ SessInit
    /\ LateInit

PacerInit ==
    /\ PacerOnlyInit
    /\ RegInit
    /\ CredsInit
    /\ ExtInit
    /\ dir = [i \in Ids |-> FALSE]

PacerNext ==
    \/ ScheduleTask
    \/ \E t \in Tasks : TaskResolves(t)
    \/ \E t \in Tasks : TaskRejects(t)
    \/ \E t \in Tasks : TimerFires(t)
    \/ Tick

SpecPacer == PacerInit /\ [][PacerNext]_vars

\* ------------------------------------------------ properties of the pacer
PrevTask(k) == startLog[k - 1].task

\* C7: at most one task body executes at any time, and tasks begin in the
\* order schedule() was called (tasks are numbered in that order), whether
\* they resolve or reject and whenever they are scheduled.
C7_NoOverlapFifo ==
    /\ Cardinality({x \in slots : x.phase = "task"}) <= 1
    /\ \A k \in 1..Len(startLog) : startLog[k].task = k

C7_Witness ==
    /\ Len(startLog) >= 2
    /\ Len(queue) >= 1
    /\ \E x \in slots : x.phase = "task"
    /\ \E t \in Tasks : outcome[t] = "failed"

\* C8: when no task has failed, every task but the first starts at least
\* delayMs after the task started before it.
C8_StartsSpaced ==
    (\A t \in Tasks : outcome[t] # "failed") =>
        \A k \in 2..Len(startLog) : startLog[k].sinceStart >= delayMs

C8_Witness ==
    /\ Len(startLog) >= 3
    /\ \A t \in Tasks : outcome[t] # "failed"

\* C9: after a task failed the queue moves on, and the task started next
\* starts no sooner than delayMs after the failed task settled.
C9_DelayAfterFailure ==
    /\ (queue # <<>> => slots # {})
    /\ \A k \in 2..Len(startLog) :
          outcome[PrevTask(k)] = "failed" => startLog[k].sinceSettle >= delayMs

\* ------------------------------------------------ registry and instances
Objs == 1..Len(sid)
\* The socket of object o is up: connecting or open. The two are one value,
\* the open branch of the handler clears this.qr and nothing else.
Alive(o) == conn[o] = "up"
Initializing(o) == initPc[o] # "idle"

\* The part of the state getInstance reads and writes, as one value, so that
\* restoreSessions can apply getInstance to one id after the other.
Reg ==
    [instances |-> instances, sid |-> sid, queue |-> queue, slots |-> slots,
     initPc |-> initPc, initCount |-> initCount, schedCount |-> schedCount,
     rets |-> rets, nCalls |-> nCalls,
     sinceStart |-> sinceStart]

Commit(st) ==
    /\ instances' = st.instances
    /\ sid' = st.sid
    /\ queue' = st.queue
    /\ slots' = st.slots
    /\ initPc' = st.initPc
    /\ initCount' = st.initCount
    /\ schedCount' = st.schedCount
    /\ rets' = st.rets
    /\ nCalls' = st.nCalls
    /\ sinceStart' = st.sinceStart

\* init(), from the call to its first await (fs.ensureDir).
InitCall(st, o) ==
    [st EXCEPT !.initPc[o] = "running", !.initCount[o] = @ + 1, !.sinceStart = 0]

\* The pacer moved to r; the wrapper of the task it started, if any, calls
\* instance.init() at once.
AfterPacer(st, r) ==
    LET st2 == [st EXCEPT !.queue = r.queue, !.slots = r.slots] IN
    IF r.started = 0 THEN st2 ELSE InitCall(st2, r.started)

\* a lookup that never finds the entry
LookupMiss(m, id) == 0
\* this.instances.get(sessionId)
Lookup(m, id) == m[id]

\* WhatsAppManager.getInstance: no await between the lookup and the insert.
\* rets and nCalls observe what getInstance(id) returns to the callers whose
\* call comes before the first init() of the id's object has completed. They
\* are cleared when that init() completes and when the id's entry is deleted.
Observed(st, o) == st.initCount[o] = 0 \/ (st.initCount[o] = 1 /\ st.initPc[o] # "idle")

getInstance(st, id) ==
    LET found == Lookup(st.instances, id) IN
    IF found # 0
    THEN IF Observed(st, found)
         THEN [st EXCEPT !.rets[id] = @ \cup {found}, !.nCalls[id] = Min(@ + 1, 2)]
         ELSE st
    ELSE LET o == Len(st.sid) + 1
             st1 == [st EXCEPT !.sid = Append(@, id),
                               !.instances[id] = o,
                               !.schedCount[o] = @ + 1,
                               !.rets[id] = @ \cup {o},
                               !.nCalls[id] = Min(@ + 1, 2)]
         IN AfterPacer(st1, PQAdd(st1.queue, st1.slots, o))

\* a loop that ends after its first entry
getInstanceFirst(st, ids) ==
    IF ids = <<>> THEN st ELSE getInstance(st, Head(ids))

\* the loop of restoreSessions over the entries readdir listed
RECURSIVE getInstanceEach(_, _)
getInstanceEach(st, ids) ==
    IF ids = <<>> THEN st ELSE getInstanceEach(getInstance(st, Head(ids)), Tail(ids))

\* Orders in which readdir may list the set S of entries.
Orders(S) ==
    {q \in [1..Cardinality(S) -> S] : \A i, j \in DOMAIN q : i # j => q[i] # q[j]}

\* objects getInstance would construct for the ids of S
Needed(S) == Cardinality({i \in S : Lookup(instances, i) = 0})

\* bootstrap(): restoreSessions calls getInstance for every session
\* directory, in one synchronous loop; the HTTP server starts afterwards.
RestoreSessions ==
    /\ ~booted
    /\ booted' = TRUE
    /\ LET S == {i \in Ids : dir[i]} IN
        /\ Len(sid) + Needed(S) <= MaxObjs
        /\ \E q \in Orders(S) : Commit(getInstanceEach(Reg, q))
    /\ UNCHANGED <<sinceSettle, harnessVars, credVars, extVars, sockDefined, conn, cleanup,
                   dir, removes, nRemoves>>

\* POST /sessions/:id, GET /sessions/:id/qr, POST /messages/send
GetInstance(id) ==
    /\ booted
    /\ Len(sid) + Needed({id}) <= MaxObjs
    /\ Commit(getInstance(Reg, id))
    /\ UNCHANGED <<sinceSettle, harnessVars, credVars, extVars, booted, sockDefined, conn, cleanup, dir, removes, nRemoves>>

\* ---- init()
\* The first init() of object o completed: the calls that raced it are no
\* longer observed.
EndObservation(o) ==
    IF initCount[o] = 1 /\ instances[sid[o]] = o
    THEN /\ rets' = [rets EXCEPT ![sid[o]] = {}]
         /\ nCalls' = [nCalls EXCEPT ![sid[o]] = 0]
    ELSE UNCHANGED <<rets, nCalls>>

\* The task getInstance scheduled settles when init() does: its try/catch
\* swallows a rejection, so the wrapper always goes on to the delay.
TaskSettles(s, o) == IF \E x \in s : x.task = o /\ x.phase = "task" THEN BeginDelay(s, o) ELSE s

\* fs.ensureDir(sessionPath) and useMultiFileAuthState(sessionPath) resolved
\* (the session folder exists now), then fetchVersion() settled (a failure
\* or timeout falls back to a fixed version): makeWASocket, the handlers are
\* registered, init() returns. The awaits of init() are one step: between
\* them init() changes the session folder only, which nothing but
\* restoreSessions reads, and restoreSessions runs before any init().
SocketCreated(o) ==
    /\ initPc[o] = "running"
    /\ initPc' = [initPc EXCEPT ![o] = "idle"]
    /\ dir' = [dir EXCEPT ![sid[o]] = TRUE]
    /\ sockDefined' = [sockDefined EXCEPT ![o] = TRUE]
    /\ conn' = [conn EXCEPT ![o] = "up"]
    /\ slots' = TaskSettles(slots, o)
    /\ EndObservation(o)
    /\ UNCHANGED <<queue, sinceStart, sinceSettle, harnessVars, credVars, extVars, booted, instances, sid,
                   initCount, schedCount, cleanup, removes, nRemoves>>

\* init() threw (ensureDir, the credential load, makeWASocket): the catch
\* block rethrows. The session folder was made before the failure or was not.
InitFails(o) ==
    /\ Initializing(o)
    /\ initPc' = [initPc EXCEPT ![o] = "idle"]
    /\ slots' = TaskSettles(slots, o)
    /\ EndObservation(o)
    /\ \E made \in BOOLEAN : dir' = [dir EXCEPT ![sid[o]] = @ \/ made]
    /\ UNCHANGED <<queue, sinceStart, sinceSettle, harnessVars, credVars, extVars, booted, instances, sid,
                   initCount, schedCount, sockDefined, conn, cleanup, removes, nRemoves>>

\* the wrapper of object o's task resolved: p-queue starts the next task
WrapperResolves(o) ==
    /\ Commit(AfterPacer(Reg, PQNext(queue, slots, o)))
    /\ UNCHANGED <<sinceSettle, harnessVars, credVars, extVars, booted, sockDefined, conn, cleanup, dir,
                   removes, nRemoves>>

\* the pacer's timer of object o's task fired, delayMs after it was armed
PacerTimerFires(o) == TimerDue(o) /\ WrapperResolves(o)

\* the same with the clock left out: the delay of object o's task ends at
\* some time
PacerDelayEnds(o) == Delaying(o) /\ WrapperResolves(o)

\* ---- connection.update handler
\* a handler that reconnects whatever the reason
shouldReconnectAlways(code) == TRUE
\* statusCode !== DisconnectReason.loggedOut
shouldReconnect(code) == code # loggedOut

\* a close branch that calls init() after a logout as well
OnCloseReinitAfterLogout(o, code) ==
    /\ conn' = [conn EXCEPT ![o] = "closed"]
    /\ initPc' = [initPc EXCEPT ![o] = "running"]
    /\ initCount' = [initCount EXCEPT ![o] = @ + 1]
    /\ sinceStart' = 0
    /\ cleanup' = IF shouldReconnect(code) THEN cleanup
                  ELSE [cleanup EXCEPT ![o] = "removing"]
\* What the close branch of the handler does to object o, up to its await:
\* this.init() runs to its first await, or fs.remove(sessionPath) is begun.
OnClose(o, code) ==
    /\ conn' = [conn EXCEPT ![o] = "closed"]
    /\ IF shouldReconnect(code)
       THEN /\ initPc' = [initPc EXCEPT ![o] = "running"]
            /\ initCount' = [initCount EXCEPT ![o] = @ + 1]
            /\ sinceStart' = 0
            /\ UNCHANGED cleanup
       ELSE /\ cleanup' = [cleanup EXCEPT ![o] = "removing"]
            /\ UNCHANGED <<initPc, initCount, sinceStart>>

RECURSIVE ReinitsUpTo(_)
ReinitsUpTo(n) == IF n = 0 THEN 0 ELSE Max(initCount[n] - 1, 0) + ReinitsUpTo(n - 1)

\* init() calls made so far by close handlers (each object's first init()
\* is the pacer's)
Reinits == ReinitsUpTo(MaxObjs)

\* connection === 'close' with status code `code` (a socket closes once)
ConnClose(o, code) ==
    /\ Alive(o)
    /\ shouldReconnect(code) => Reinits < MaxReinits
    /\ OnClose(o, code)
    /\ UNCHANGED <<queue, slots, sinceSettle, harnessVars, credVars, extVars, booted, instances, sid,
                   schedCount, sockDefined, dir, removes, nRemoves, rets, nCalls>>

\* fs.remove(sessionPath) of the logout branch resolved
FsRemoveDone(o) ==
    /\ cleanup[o] = "removing"
    /\ cleanup' = [cleanup EXCEPT ![o] = "removed"]
    /\ dir' = [dir EXCEPT ![sid[o]] = FALSE]
    /\ UNCHANGED <<pacerVars, harnessVars, credVars, extVars, booted, instances, sid, initPc, initCount,
                   schedCount, sockDefined, conn, removes, nRemoves, rets,
                   nCalls>>

\* ---- WhatsAppManager.removeInstance
\* this.instances.delete(sessionId)
Unregister(id) ==
    /\ instances' = [instances EXCEPT ![id] = 0]
    /\ rets' = [rets EXCEPT ![id] = {}]
    /\ nCalls' = [nCalls EXCEPT ![id] = 0]

\* DELETE /sessions/:id for a registered id. logout() returns at once when
\* this.sock is unset, and the entry is deleted; otherwise the call awaits
\* sock.logout() of the socket the object holds now.
RemoveInstance(id) ==
    /\ booted
    /\ instances[id] # 0
    /\ LET o == instances[id] IN
        IF sockDefined[o]
        THEN /\ nRemoves < MaxRemoves
             /\ nRemoves' = nRemoves + 1
             /\ removes' = removes \cup {[obj |-> o, gen |-> initCount[o]]}
             /\ UNCHANGED <<instances, rets, nCalls>>
        ELSE /\ Unregister(id)
             /\ UNCHANGED <<removes, nRemoves>>
    /\ UNCHANGED <<pacerVars, harnessVars, credVars, extVars, booted, sid, initPc, initCount, schedCount,
                   sockDefined, conn, cleanup, dir>>

\* sock.logout() resolved: the socket it was called on ended with
\* DisconnectReason.loggedOut (its close handler runs if it was still up),
\* then this.sock = undefined and the entry of the id is deleted.
LogoutResolves(c) ==
    /\ c \in removes
    /\ removes' = removes \ {c}
    /\ IF c.gen = initCount[c.obj] /\ Alive(c.obj)
       THEN OnClose(c.obj, loggedOut)
       ELSE UNCHANGED <<conn, initPc, initCount, cleanup, sinceStart>>
    /\ sockDefined' = [sockDefined EXCEPT ![c.obj] = FALSE]
    /\ Unregister(sid[c.obj])
    /\ UNCHANGED <<queue, slots, sinceSettle, harnessVars, credVars, extVars, booted, sid, schedCount, dir,
                   nRemoves>>

\* a removeInstance that deletes the entry although sock.logout() rejected
LogoutRejectsUnregisters(c) ==
    /\ c \in removes
    /\ removes' = removes \ {c}
    /\ Unregister(sid[c.obj])
    /\ UNCHANGED <<pacerVars, harnessVars, credVars, extVars, booted, sid, initPc, initCount,
                   schedCount, sockDefined, conn, cleanup, dir, nRemoves>>

\* sock.logout() rejected: removeInstance rethrows, nothing else happens.
LogoutRejects(c) ==
    /\ c \in removes
    /\ removes' = removes \ {c}
    /\ UNCHANGED <<pacerVars, harnessVars, credVars, extVars, booted, instances, sid, initPc, initCount,
                   schedCount, sockDefined, conn, cleanup, dir, nRemoves,
                   rets, nCalls>>

\* In the whole system the clock is advanced a full delay at a time.
Elapse == Advance(delayMs)

RemoveCalls == [obj : ObjIds, gen : 1..(MaxReinits + 1)]

\* ------------------------------------------ credential saves of one object
\* The saves of one WhatsAppInstance: `saves` holds one record per call of
\* atomicSave, with the socket whose creds.update made the call (each init()
\* makes its own saveCreds) and where the call is: "waiting" for saveMutex,
\* "writing" (it holds saveMutex, saveCreds() is pending), "done" or "failed".
Held(q) == \E k \in DOMAIN q : q[k].st = "writing"

\* a wrapper that calls saveCreds() without the mutex
AcquireNoMutex(q) == "writing"
\* saveMutex.runExclusive, on entry: the mutex is taken at once when it is
\* free, and the caller queues behind the earlier callers when it is not.
Acquire(q) == IF Held(q) THEN "waiting" ELSE "writing"

Waiting(q) == {k \in DOMAIN q : q[k].st = "waiting"}
FirstWaiting(q) == CHOOSE k \in Waiting(q) : \A j \in Waiting(q) : k <= j

\* a runExclusive that releases the mutex after a successful callback only
SettleNoFinally(q, k, st) ==
    LET q1 == [q EXCEPT ![k].st = st] IN
    IF st = "failed" \/ Waiting(q1) = {} THEN q1
    ELSE [q1 EXCEPT ![FirstWaiting(q1)].st = "writing"]
\* saveMutex.runExclusive, on exit: saveCreds() of call k settled with st,
\* the mutex is released in a finally and goes to the oldest waiting caller.
Settle(q, k, st) ==
    LET q1 == [q EXCEPT ![k].st = st] IN
    IF Waiting(q1) = {} THEN q1
    ELSE [q1 EXCEPT ![FirstWaiting(q1)].st = "writing"]

\* init() made a socket and registered atomicSave for its creds.update
CredsSocketCreated ==
    /\ socks < MaxSockets
    /\ socks' = socks + 1
    /\ UNCHANGED <<pacerVars, harnessVars, booted, instances, sid, initPc, initCount,
                   schedCount, sockDefined, conn, cleanup, dir, removes, nRemoves,
                   rets, nCalls, saves, extVars>>

\* socket k emitted creds.update: atomicSave runs up to its first await
CredsUpdate(k) ==
    /\ k <= socks
    /\ Len(saves) < MaxCredUpdates
    /\ saves' = Append(saves, [sock |-> k, st |-> Acquire(saves)])
    /\ UNCHANGED <<pacerVars, harnessVars, booted, instances, sid, initPc, initCount,
                   schedCount, sockDefined, conn, cleanup, dir, removes, nRemoves,
                   rets, nCalls, socks, extVars>>

\* saveCreds() of call k settled
SaveCredsSettles(k, st) ==
    /\ k \in DOMAIN saves
    /\ saves[k].st = "writing"
    /\ saves' = Settle(saves, k, st)
    /\ UNCHANGED <<pacerVars, harnessVars, booted, instances, sid, initPc, initCount,
                   schedCount, sockDefined, conn, cleanup, dir, removes, nRemoves,
                   rets, nCalls, socks, extVars>>

SaveCredsResolves(k) == SaveCredsSettles(k, "done")
SaveCredsRejects(k) == SaveCredsSettles(k, "failed")

CredsNext ==
    \/ CredsSocketCreated
    \/ \E k \in 1..MaxSockets : CredsUpdate(k)
    \/ \E k \in 1..MaxCredUpdates : SaveCredsResolves(k)
    \/ \E k \in 1..MaxCredUpdates : SaveCredsRejects(k)

\* every saveCreds() settles
SaveTerminates ==
    WF_vars(\E k \in 1..MaxCredUpdates : SaveCredsResolves(k) \/ SaveCredsRejects(k))

SpecCreds == PacerInit /\ [][CredsNext]_vars /\ SaveTerminates

Started(k) == k \in DOMAIN saves /\ saves[k].st # "waiting"
Finished(k) == k \in DOMAIN saves /\ saves[k].st \in {"done", "failed"}

\* C3: at most one save of the object is writing, and a save has started
\* only if every save called before it has finished.
C3_SavesSerialized ==
    /\ Cardinality({k \in DOMAIN saves : saves[k].st = "writing"}) <= 1
    /\ \A i, j \in DOMAIN saves : (i < j /\ Started(j)) => Finished(i)

C3_Witness ==
    \E i, j \in DOMAIN saves :
        /\ i < j
        /\ saves[i].sock # saves[j].sock
        /\ saves[i].st = "writing"
        /\ saves[j].st = "waiting"

\* C4: every call of atomicSave comes to call saveCreds(), also when a save
\* before it failed.
C4_EveryUpdateSaved ==
    \A k \in 1..MaxCredUpdates : (k \in DOMAIN saves) ~> Started(k)

C4_Witness ==
    \E i, j \in DOMAIN saves :
        /\ i < j
        /\ saves[i].st = "failed"
        /\ Started(j)
        /\ \E m \in DOMAIN saves : m > j /\ saves[m].st = "waiting"

\* ------------------------------------------------------- message deduper
\* NodeCache keeps, per key, the time its entry expires: the time of the set
\* plus stdTTL. An entry whose expiry time is before now is expired.
\* NodeCache._check: data.t < Date.now()
Expired(c, k, now) == c[k] # Never /\ c[k] < now

\* NodeCache.has: an expired entry is deleted by the call that meets it
NodeCacheHas(c, k, now) == c[k] # Never /\ ~Expired(c, k, now)

\* a set that stores nothing
NodeCacheSetLost(c, k, now) == c

\* NodeCache.set with the standard TTL
NodeCacheSet(c, k, now) == [c EXCEPT ![k] = now + ttlSeconds]

\* a deduper that marks the id again on every call
shouldIgnoreRefresh(c, id, now) ==
    [cache |-> NodeCacheSet(c, id, now), ret |-> NodeCacheHas(c, id, now)]

\* MessageDeduper.shouldIgnore: the cache after the call and what it returns
shouldIgnore(c, id, now) ==
    IF NodeCacheHas(c, id, now) THEN [cache |-> c, ret |-> TRUE]
    ELSE [cache |-> NodeCacheSet(c, id, now), ret |-> FALSE]

\* What a shouldIgnore(id) call leaves behind, with the observation of it.
DedupeCall(id) ==
    LET r == shouldIgnore(dcache, id, dnow) IN
    /\ dcache' = r.cache
    /\ lastCall' = [id |-> id, ret |-> r.ret, at |-> dnow, prevMark |-> markedAt[id],
                    expiry |-> r.cache[id]]
    /\ markedAt' = IF r.ret THEN markedAt ELSE [markedAt EXCEPT ![id] = dnow]

\* some caller asks the deduper about id
ShouldIgnoreCalled(id) ==
    /\ DedupeCall(id)
    /\ UNCHANGED <<coreVars, moreVars, dnow>>

\* NodeCache's periodic check (checkperiod) deletes the expired entries
CheckData ==
    /\ \E k \in MsgIds : Expired(dcache, k, dnow)
    /\ dcache' = [k \in MsgIds |-> IF Expired(dcache, k, dnow) THEN Never ELSE dcache[k]]
    /\ UNCHANGED <<coreVars, moreVars, dnow, markedAt, lastCall>>

\* time passes
DedupeTick ==
    /\ dnow + DedupeStep <= MaxNow
    /\ dnow' = dnow + DedupeStep
    /\ UNCHANGED <<coreVars, moreVars, dcache, markedAt, lastCall>>

DedupeNext ==
    \/ \E id \in MsgIds : ShouldIgnoreCalled(id)
    \/ CheckData
    \/ DedupeTick

SpecDedupe == PacerInit /\ [][DedupeNext]_vars

\* C11: the first shouldIgnore(id) returns false and marks the id; a call
\* made less than the TTL after the marking call returns true and leaves the
\* expiry where the marking call put it; a call made more than the TTL after
\* the marking call returns false and marks the id again.
C11_OncePerWindow ==
    lastCall.id # "none" =>
        LET c == lastCall IN
        /\ c.prevMark = Never => ~c.ret
        /\ (c.prevMark # Never /\ c.at - c.prevMark < ttlSeconds) =>
              (c.ret /\ c.expiry = c.prevMark + ttlSeconds)
        /\ (c.prevMark # Never /\ c.at - c.prevMark > ttlSeconds) => ~c.ret
        /\ ~c.ret => c.expiry = c.at + ttlSeconds

C11_Witness ==
    /\ lastCall.id # "none"
    /\ lastCall.prevMark # Never
    /\ lastCall.at - lastCall.prevMark > ttlSeconds
    /\ ~lastCall.ret
    /\ \E k \in MsgIds : k # lastCall.id /\ markedAt[k] # Never

\* ------------------------------------------------- the inbound pipeline
\* The 'messages.upsert' handler of WhatsAppInstance.init from its type check
\* on (cacheMessages, its first statement, touches the conversation cache
\* only and is modelled with it), with PostgresMessageWriter enabled
\* (DATABASE_URL set, pg installed).  A handler runs from one await to the
\* next without interruption; handlers of different events interleave at
\* their awaits.  A batch element is a message id, or "skip" for a message
\* the handler passes over (own, group, status broadcast, empty payload).
\* The deduper's periodic sweep is left to SpecDedupe: the pipeline reads the
\* cache through has() alone, which takes an expired entry for absent
\* whether or not it has been swept.
Elements == MsgIds \cup {"skip"}
Batches == UNION {[1..n -> Elements] : n \in 1..MaxMessages}

\* the number of messages the events so far carried
RECURSIVE Delivered(_)
Delivered(evs) == IF evs = <<>> THEN 0 ELSE Len(Head(evs).ids) + Delivered(Tail(evs))

DedupeState == [cache |-> dcache, scache |-> scache, win |-> winStart, cross |-> cross]

\* The for loop from message i on, up to the first message that reaches
\* "await this.persistSupportedInboundMedia(msg)"; i > Len(ids): the loop ended.
RECURSIVE Scan(_, _, _, _, _)
Scan(st, s, ids, i, now) ==
    IF i > Len(ids) THEN [st |-> st, i |-> i]
    ELSE IF ids[i] = "skip" THEN Scan(st, s, ids, i + 1, now)
    ELSE LET id == ids[i]
             g == shouldIgnore(st.cache, id, now)
             p == shouldIgnore(st.scache[s], id, now)
             fresh == st.win[id] = Never \/ now - st.win[id] > ttlSeconds
             st2 == [cache |-> g.cache,
                     scache |-> [st.scache EXCEPT ![s] = p.cache],
                     win |-> IF ~g.ret /\ fresh THEN [st.win EXCEPT ![id] = now]
                             ELSE st.win,
                     cross |-> IF g.ret /\ ~p.ret
                               THEN st.cross \cup {[sess |-> s, id |-> id]}
                               ELSE st.cross]
         IN IF g.ret THEN Scan(st2, s, ids, i + 1, now) ELSE [st |-> st2, i |-> i]

Scanned(r) ==
    /\ dcache' = r.st.cache
    /\ scache' = r.st.scache
    /\ winStart' = r.st.win
    /\ cross' = r.st.cross

AtMessage(ids, r) == [i |-> r.i,
                      pc |-> IF r.i > Len(ids) THEN "done" ELSE "media",
                      win |-> IF r.i > Len(ids) THEN Never ELSE r.st.win[ids[r.i]]]

\* this.sock.ev.on('messages.upsert', ...) called with a 'notify' batch
MessagesUpsert(s, ids) ==
    /\ Delivered(events) + Len(ids) <= MaxMessages
    /\ LET r == Scan(DedupeState, s, ids, 1, dnow)
           at == AtMessage(ids, r)
       IN /\ events' = Append(events,
                [sess |-> s, ids |-> ids, i |-> at.i, pc |-> at.pc, win |-> at.win,
                 url |-> FALSE])
          /\ Scanned(r)
    /\ UNCHANGED <<coreVars, cacheVars, dnow, markedAt, lastCall, sessionCache, rows, storeCalls, hooks>>

\* what persistSupportedInboundMedia returns: "unsupported" (no socket, no
\* payload or no supported media kind), "failed" (download, ensureDir or
\* writeFile threw) or "saved"
persistSupportedInboundMedia(m) == m = "saved"

\* a handler that dispatches the webhook without awaiting the store call
MediaSettlesHookFirst(e, m) ==
    /\ events[e].pc = "media"
    /\ LET ev == events[e] IN
        /\ events' = [events EXCEPT ![e] =
                [ev EXCEPT !.pc = "session", !.url = persistSupportedInboundMedia(m)]]
        /\ storeCalls' = [storeCalls EXCEPT ![ev.ids[ev.i]] = Append(@, ev.win)]
        /\ hooks' = [hooks EXCEPT ![ev.ids[ev.i]] = Append(@, ev.win)]
    /\ UNCHANGED <<coreVars, cacheVars, dedupeVars, sessionCache, rows, scache, winStart, cross>>

\* "await this.persistSupportedInboundMedia(msg)" settles; the handler calls
\* storeInboundMessage, which runs up to "await this.resolveSession(...)"
MediaSettles(e, m) ==
    /\ events[e].pc = "media"
    /\ LET ev == events[e] IN
        /\ events' = [events EXCEPT ![e] =
                [ev EXCEPT !.pc = "session", !.url = persistSupportedInboundMedia(m)]]
        /\ storeCalls' = [storeCalls EXCEPT ![ev.ids[ev.i]] = Append(@, ev.win)]
    /\ UNCHANGED <<coreVars, cacheVars, dedupeVars, sessionCache, rows, hooks, scache, winStart, cross>>

\* storeInboundMessage returned: dispatchWebhook, then the loop goes on
Continue(e) ==
    LET ev == events[e]
        r == Scan(DedupeState, ev.sess, ev.ids, ev.i + 1, dnow)
        at == AtMessage(ev.ids, r)
    IN /\ hooks' = [hooks EXCEPT ![ev.ids[ev.i]] = Append(@, ev.win)]
       /\ events' = [events EXCEPT ![e] =
                [ev EXCEPT !.i = at.i, !.pc = at.pc, !.win = at.win, !.url = FALSE]]
       /\ Scanned(r)

\* a handler that takes the mark back when the store call rejects
AbortUnmarks(e) ==
    /\ events' = [events EXCEPT ![e] =
            [@ EXCEPT !.pc = "aborted", !.win = Never, !.url = FALSE]]
    /\ dcache' = [dcache EXCEPT ![events[e].ids[events[e].i]] = Never]
    /\ UNCHANGED <<hooks, scache, winStart, cross>>

\* storeInboundMessage rejected: the handler's await throws out of the loop
Abort(e) ==
    /\ events' = [events EXCEPT ![e] =
            [@ EXCEPT !.pc = "aborted", !.win = Never, !.url = FALSE]]
    /\ UNCHANGED <<hooks, dcache, scache, winStart, cross>>

\* what resolveSession may come to: the cached value, else the query's result
resolveSession(s) ==
    IF sessionCache[s] = "unset" THEN {"info", "null", "error"} ELSE {sessionCache[s]}

SessionSettles(e, r) ==
    /\ events[e].pc = "session"
    /\ r \in resolveSession(events[e].sess)
    /\ sessionCache' = IF r = "error" THEN sessionCache
                       ELSE [sessionCache EXCEPT ![events[e].sess] = r]
    /\ CASE r = "info" ->
               /\ events' = [events EXCEPT ![e] = [@ EXCEPT !.pc = "lead"]]
               /\ UNCHANGED <<hooks, dcache, scache, winStart, cross>>
         [] r = "null" -> Continue(e)
         [] r = "error" -> Abort(e)
    /\ UNCHANGED <<coreVars, cacheVars, dnow, markedAt, lastCall, rows, storeCalls>>

LeadSettles(e, r) ==
    /\ events[e].pc = "lead"
    /\ CASE r = "found" ->
               /\ events' = [events EXCEPT ![e] = [@ EXCEPT !.pc = "insert"]]
               /\ UNCHANGED <<hooks, dcache, scache, winStart, cross>>
         [] r = "null" -> Continue(e)
         [] r = "error" -> Abort(e)
    /\ UNCHANGED <<coreVars, cacheVars, dnow, markedAt, lastCall, sessionCache, rows, storeCalls>>

\* INSERT INTO et_messages ... ON CONFLICT (tenant_id, channel,
\* external_message_id) DO UPDATE SET raw_payload, updated_at
Conflicts(rs, row) ==
    {i \in DOMAIN rs : /\ rs[i].tenant = row.tenant
                       /\ rs[i].channel = row.channel
                       /\ rs[i].id = row.id}

InsertAlways(rs, row) == Append(rs, row)

Insert(rs, row) ==
    IF Conflicts(rs, row) = {} THEN Append(rs, row)
    ELSE [i \in DOMAIN rs |-> IF i \in Conflicts(rs, row)
                              THEN [rs[i] EXCEPT !.updatedAt = row.updatedAt]
                              ELSE rs[i]]

\* the row of message id of session s; the tenant s maps to is named by s
Row(s, id) == [tenant |-> s, channel |-> "whatsapp", id |-> id,
               createdAt |-> dnow, updatedAt |-> dnow]

InsertSettles(e, ok) ==
    /\ events[e].pc = "insert"
    /\ rows' = IF ok THEN Insert(rows, Row(events[e].sess, events[e].ids[events[e].i]))
               ELSE rows
    /\ Continue(e)
    /\ UNCHANGED <<coreVars, cacheVars, dnow, markedAt, lastCall, sessionCache, storeCalls>>

InboundNext ==
    \/ \E s \in Sessions, ids \in Batches : MessagesUpsert(s, ids)
    \/ \E e \in DOMAIN events, m \in {"unsupported", "failed", "saved"} : MediaSettles(e, m)
    \/ \E e \in DOMAIN events, r \in {"info", "null", "error"} : SessionSettles(e, r)
    \/ \E e \in DOMAIN events, r \in {"found", "null", "error"} : LeadSettles(e, r)
    \/ \E e \in DOMAIN events, ok \in BOOLEAN : InsertSettles(e, ok)
    \/ DedupeTick

SpecInbound == PacerInit /\ [][InboundNext]_vars

Apart(s) == \A i, j \in DOMAIN s :
    i # j => (s[i] - s[j] > ttlSeconds \/ s[j] - s[i] > ttlSeconds)

\* C12: whatever the interleaving of the messages.upsert handlers, the
\* storeInboundMessage calls made for one message id belong to different
\* dedupe windows (windows that start more than ttlSeconds apart), and so do
\* its 'message' webhooks: one id gets at most one of each per TTL window.
C12_OncePerWindow ==
    \A k \in MsgIds : Apart(storeCalls[k]) /\ Apart(hooks[k])

\* a redelivery of an id arrived while the handler that accepted the id was
\* still awaiting media or the store, and was dropped
C12_Witness ==
    \E k \in MsgIds, e1, e2 \in DOMAIN events :
        /\ e1 < e2
        /\ events[e1].pc \in {"media", "session", "lead", "insert"}
        /\ events[e1].ids[events[e1].i] = k
        /\ events[e2].pc = "done"
        /\ \A j \in DOMAIN events[e2].ids : events[e2].ids[j] = k
        /\ hooks[k] = <<>>

\* C13: the shared deduper drops no message that a deduper of the message's
\* own session would accept: no message of one session is dropped because
\* of an id marked while processing another session.
C13_SharedAsPerSession == cross = {}

\* the store call of handler e settles in this step in one of its failure
\* modes: session not mapped, lead not mapped, or a failed query
StoreFails(e) ==
    \/ SessionSettles(e, "null")
    \/ SessionSettles(e, "error")
    \/ LeadSettles(e, "null")
    \/ LeadSettles(e, "error")
    \/ InsertSettles(e, FALSE)

\* the 'message' webhook of the message handler e is at is dispatched in this step
Hooked(e) ==
    hooks' = [hooks EXCEPT ![events[e].ids[events[e].i]] = Append(@, events[e].win)]

\* the handler has gone on to the rest of its batch
GoesOn(e) ==
    /\ events'[e].pc \in {"media", "done"}
    /\ events'[e].i > events[e].i

\* C14: in every failure mode of the store writer no row is written, the
\* message's webhook is still dispatched and the handler goes on with the
\* rest of the batch.
C14_StoreFailureContained ==
    [][\A e \in DOMAIN events :
        StoreFails(e) => (rows' = rows /\ Hooked(e) /\ GoesOn(e))]_vars

\* the processing of the message handler e is at ends in this step
MessageEnds(e) ==
    /\ events[e].pc \in {"session", "lead", "insert"}
    /\ events'[e].pc \in {"media", "done", "aborted"}

\* the message handler e is at has no media URL
NoMedia(e) == ~events[e].url

\* C15: a message whose media capture met an unsupported kind or failed has
\* no media URL, is passed to the store writer, and is forwarded as a webhook
\* when its processing ends.
C15_MediaNeverBlocks ==
    [][\A e \in DOMAIN events :
        /\ (MediaSettles(e, "unsupported") \/ MediaSettles(e, "failed")) =>
              (~events'[e].url /\ events'[e].pc = "session")
        /\ (NoMedia(e) /\ MessageEnds(e)) => Hooked(e)]_vars

SameKey(r1, r2) ==
    r1.tenant = r2.tenant /\ r1.channel = r2.channel /\ r1.id = r2.id

\* C20: the store holds at most one row per (tenant, channel, message id),
\* however often the id is written for the session.
C20_OneRowPerId ==
    \A i, j \in DOMAIN rows : SameKey(rows[i], rows[j]) => i = j

\* an id was written a second time, after its dedupe window expired
C20_Witness ==
    \E i \in DOMAIN rows :
        /\ rows[i].updatedAt - rows[i].createdAt > ttlSeconds
        /\ Len(storeCalls[rows[i].id]) = 2

\* ------------------------------------------------ the conversation cache
\* this.chats and this.messagesByChat of one WhatsAppInstance, with the
\* handlers that fill them and the listing that reads them.  A message is
\* [id, remoteJid, remoteJidAlt, messageTimestamp]; messageTimestamp is in
\* seconds, as WhatsApp sends it (below the 10^12 from which the code takes a
\* value for milliseconds).  A Map is the sequence of its entries in
\* insertion order.
CacheIds == MsgIds \cup {"m3"}
Stamps == {0, 1}
Msgs == [id : CacheIds, remoteJid : Jids, remoteJidAlt : Jids \cup {NoAlt},
         messageTimestamp : Stamps]
\* the batches an event carries: no message, or one
MsgBatches == {<<>>} \cup {<<m>> : m \in {x \in Msgs : x.remoteJidAlt # x.remoteJid}}
\* the cutoffs a listing asks for, in milliseconds; {} is "no cutoff"
Cutoffs == {{}} \cup {{c} : c \in {0, 1000, 2000}}

endsWithLid(j) == j = LID
endsWithPn(j) == j = PN

\* a resolution that never looks at the alternate
resolveStorageJidPrimary(primary, alt) == primary

resolveStorageJid(primary, alt) ==
    IF endsWithLid(primary) /\ alt # NoAlt /\ endsWithPn(alt) THEN alt ELSE primary

messageTimestampMs(msg) ==
    IF msg.messageTimestamp <= 0 THEN 0 ELSE msg.messageTimestamp * 1000

\* Array.prototype.sort by messageTimestampMs, ascending and stable
RECURSIVE InsertSorted(_, _)
InsertSorted(s, x) ==
    IF s = <<>> THEN <<x>>
    ELSE IF messageTimestampMs(Head(s)) <= messageTimestampMs(x)
         THEN <<Head(s)>> \o InsertSorted(Tail(s), x)
         ELSE <<x>> \o s

\* a sort that leaves the entries in insertion order
SortUnsorted(s) == s

RECURSIVE SortByTimestamp(_)
SortByTimestamp(s) ==
    IF s = <<>> THEN <<>>
    ELSE InsertSorted(SortByTimestamp(SubSeq(s, 1, Len(s) - 1)), s[Len(s)])

\* Map.set: an existing key keeps its place and takes the new value
MapSet(s, msg) ==
    IF \E i \in DOMAIN s : s[i].id = msg.id
    THEN [i \in DOMAIN s |-> IF s[i].id = msg.id THEN msg ELSE s[i]]
    ELSE Append(s, msg)

\* the overflow branch of cacheMessages: delete the first `overflow` entries
\* of the sorted copy
Evict(s) ==
    IF Len(s) > maxCachedMessagesPerChat
    THEN LET sorted == SortByTimestamp(s)
             overflow == Len(s) - maxCachedMessagesPerChat
             gone == {sorted[i].id : i \in 1..overflow}
         IN SelectSeq(s, LAMBDA e : e.id \notin gone)
    ELSE s

\* one iteration of the loop of cacheMessages
cacheMessage(byChat, msg) ==
    LET jid == resolveStorageJid(msg.remoteJid, msg.remoteJidAlt)
    IN [byChat EXCEPT ![jid] = Evict(MapSet(@, msg))]

RECURSIVE cacheMessages(_, _)
cacheMessages(byChat, messages) ==
    IF messages = <<>> THEN byChat
    ELSE cacheMessages(cacheMessage(byChat, Head(messages)), Tail(messages))

\* upsertChats, and the loop of the chats.update handler: the keys after it
upsertChats(keys, cs) == keys \cup cs

\* getChatMessages: the [id, timestamp] of the messages it returns
getChatMessages(jid, limit, beforeTimestamp) ==
    LET storageJid == resolveStorageJid(jid, NoAlt)
        sorted == SortByTimestamp(messagesByChat[storageJid])
        filtered == IF beforeTimestamp # {} /\ beforeTimestamp # {0}
                    THEN SelectSeq(sorted,
                            LAMBDA m : \A c \in beforeTimestamp : messageTimestampMs(m) < c)
                    ELSE sorted
        items == IF Len(filtered) > limit
                 THEN SubSeq(filtered, Len(filtered) - limit + 1, Len(filtered))
                 ELSE filtered
    IN [i \in DOMAIN items |-> [id |-> items[i].id, timestamp |-> messageTimestampMs(items[i])]]

Entries(s) == {s[i] : i \in DOMAIN s}

\* the entries the overflow branch deletes while cacheMessages(messages) runs
RECURSIVE evictedBy(_, _)
evictedBy(byChat, messages) ==
    IF messages = <<>> THEN {}
    ELSE LET msg == Head(messages)
             jid == resolveStorageJid(msg.remoteJid, msg.remoteJidAlt)
             set == MapSet(byChat[jid], msg)
         IN (Entries(set) \ Entries(Evict(set)))
                \cup evictedBy(cacheMessage(byChat, msg), Tail(messages))

Cached(messages) ==
    /\ nCached + Len(messages) <= MaxCached
    /\ nCached' = nCached + Len(messages)
    /\ messagesByChat' = cacheMessages(messagesByChat, messages)
    /\ lastEvicted' = evictedBy(messagesByChat, messages)

\* a history handler that runs the messages through the deduper as well
HistorySetDeduped(cs, messages) ==
    /\ cs # {} \/ messages # <<>>
    /\ chats' = upsertChats(chats, cs)
    /\ Cached(messages)
    /\ dcache' = [k \in MsgIds |->
            IF \E i \in DOMAIN messages : messages[i].id = k
            THEN shouldIgnore(dcache, k, dnow).cache[k] ELSE dcache[k]]
    /\ UNCHANGED <<coreVars, dnow, markedAt, lastCall, inboundVars>>

\* 'messaging-history.set'
HistorySet(cs, messages) ==
    /\ cs # {} \/ messages # <<>>
    /\ chats' = upsertChats(chats, cs)
    /\ Cached(messages)
    /\ UNCHANGED <<coreVars, dedupeVars, inboundVars>>

\* 'chats.upsert'
ChatsUpsert(cs) ==
    /\ cs # {}
    /\ chats' = upsertChats(chats, cs)
    /\ lastEvicted' = {}
    /\ UNCHANGED <<coreVars, dedupeVars, inboundVars, messagesByChat, nCached>>

\* 'chats.update': an update makes the chat when it is not there yet
ChatsUpdate(cs) ==
    /\ cs # {}
    /\ chats' = upsertChats(chats, cs)
    /\ lastEvicted' = {}
    /\ UNCHANGED <<coreVars, dedupeVars, inboundVars, messagesByChat, nCached>>

\* 'chats.delete'
ChatsDelete(js) ==
    /\ js # {}
    /\ chats' = chats \ js
    /\ messagesByChat' = [j \in Jids |-> IF j \in js THEN <<>> ELSE messagesByChat[j]]
    /\ lastEvicted' = {}
    /\ UNCHANGED <<coreVars, dedupeVars, inboundVars, nCached>>

\* 'messages.upsert': this.cacheMessages(messages), the handler's first statement
MessagesUpsertCached(messages) ==
    /\ messages # <<>>
    /\ Cached(messages)
    /\ UNCHANGED <<coreVars, dedupeVars, inboundVars, chats>>

CacheNext ==
    \/ \E cs \in SUBSET Jids, ms \in MsgBatches : HistorySet(cs, ms)
    \/ \E cs \in SUBSET Jids : ChatsUpsert(cs)
    \/ \E cs \in SUBSET Jids : ChatsUpdate(cs)
    \/ \E js \in SUBSET Jids : ChatsDelete(js)
    \/ \E ms \in MsgBatches : MessagesUpsertCached(ms)

SpecCache == PacerInit /\ [][CacheNext]_vars

StorageKey(m) == resolveStorageJid(m.remoteJid, m.remoteJidAlt)
Carried(m, primary, alt) == m.remoteJid = primary /\ m.remoteJidAlt = alt
ListedIds(r) == {r[i].id : i \in DOMAIN r}

\* C16: a cached message that arrived with primary LID and alternate PN, or
\* with primary PN and no alternate, is held under the key PN, and a listing
\* of PN returns it.
C16_SameKeyForBothForms ==
    \A j \in Jids : \A m \in Entries(messagesByChat[j]) :
        (Carried(m, LID, PN) \/ Carried(m, PN, NoAlt)) =>
            /\ j = PN
            /\ m.id \in ListedIds(getChatMessages(PN, maxCachedMessagesPerChat, {}))

\* a message with primary LID and alternate PN, then one with primary PN and
\* no alternate, both held and listed under PN
C16_Witness ==
    \E i, k \in DOMAIN messagesByChat[PN] :
        /\ i < k
        /\ Carried(messagesByChat[PN][i], LID, PN)
        /\ Carried(messagesByChat[PN][k], PN, NoAlt)
        /\ Len(getChatMessages(PN, maxCachedMessagesPerChat, {})) = 2

\* the keys the cache holds something under
Keys == chats \cup {j \in Jids : messagesByChat[j] # <<>>}

\* C17: everything cached for the one counterpart is under a single key.
C17_OneKeyPerCounterpart == Cardinality(Keys) <= 1

\* C18: a chat never holds more than maxCachedMessagesPerChat messages, and
\* entries are evicted only from a chat that is left full, each with a
\* timestamp no larger than that of every entry kept.
C18_EvictsOldest ==
    /\ \A j \in Jids : Len(messagesByChat[j]) <= maxCachedMessagesPerChat
    /\ \A x \in lastEvicted :
        /\ Len(messagesByChat[StorageKey(x)]) = maxCachedMessagesPerChat
        /\ \A y \in Entries(messagesByChat[StorageKey(x)]) :
              /\ y.id # x.id
              /\ messageTimestampMs(x) <= messageTimestampMs(y)

\* an eviction took place: the entry evicted is older than one that was kept
C18_Witness ==
    \E x \in lastEvicted : \E y \in Entries(messagesByChat[StorageKey(x)]) :
        messageTimestampMs(x) < messageTimestampMs(y)

\* the messages of the key a listing with this cutoff may return
Eligible(jid, beforeTimestamp) ==
    {m \in Entries(messagesByChat[resolveStorageJid(jid, NoAlt)]) :
        \A c \in beforeTimestamp : messageTimestampMs(m) < c}

\* C19: a listing is in ascending timestamp order, holds only messages
\* strictly before the cutoff when one is given (0 included), and is made of
\* the `limit` latest of those messages (all of them when there are fewer).
C19_ListMessages ==
    \A jid \in Jids, limit \in 1..MaxLimit, beforeTimestamp \in Cutoffs :
        LET r == getChatMessages(jid, limit, beforeTimestamp)
            el == Eligible(jid, beforeTimestamp)
        IN /\ \A i, k \in DOMAIN r : i < k => r[i].timestamp <= r[k].timestamp
           /\ \A i \in DOMAIN r : \A c \in beforeTimestamp : r[i].timestamp < c
           /\ ListedIds(r) \subseteq {m.id : m \in el}
           /\ Len(r) = Min(limit, Cardinality(el))
           /\ \A m \in el : m.id \notin ListedIds(r) =>
                 \A i \in DOMAIN r : messageTimestampMs(m) <= r[i].timestamp

\* ------------------------------------------------------- one instance
\* One WhatsAppInstance from the moment getInstance has constructed and
\* registered it: its init() calls, the sockets they make (one after the
\* other: a socket closes once and only its close handler calls init()
\* again), the connection.update handler, logout() under removeInstance and
\* the send route.  The pacer is "at some time the queued init() is called".
\* A socket is [state, user]: state is "connecting", "open" or "closed", user
\* is sock.user being set (the credentials hold an account).
SessUp(k) == k \in DOMAIN ws /\ ws[k].state \in {"connecting", "open"}

\* a catch block that swallows the error
InitCatchSwallow(prev) == [lastError |-> "Initialization failed", ended |-> "returned"]
\* the catch block of init(): this.lastError is set and the error is rethrown
InitCatch(prev) == [lastError |-> "Initialization failed", ended |-> "threw"]

\* the pacer starts the task getInstance scheduled: instance.init()
SessInitStarts ==
    /\ ipc = "queued"
    /\ ipc' = "running"
    /\ inits' = inits + 1
    /\ UNCHANGED <<baseVars, dedupeVars, moreVars, lastInit, sock, ws, qr, lastError,
                   emitted, folder, registered, loggingOut, sends>>

\* an init() that forgets the last error when it succeeds
SessSocketMadeClearsError(u) ==
    /\ ipc = "running"
    /\ ipc' = "idle"
    /\ lastInit' = "returned"
    /\ ws' = Append(ws, [state |-> "connecting", user |-> u])
    /\ sock' = Len(ws) + 1
    /\ folder' = "present"
    /\ lastError' = "undefined"
    /\ UNCHANGED <<baseVars, dedupeVars, moreVars, inits, qr, emitted,
                   registered, loggingOut, sends>>

\* init() got to makeWASocket and returned; u: the credentials loaded hold an account
SessSocketMade(u) ==
    /\ ipc = "running"
    /\ ipc' = "idle"
    /\ lastInit' = "returned"
    /\ ws' = Append(ws, [state |-> "connecting", user |-> u])
    /\ sock' = Len(ws) + 1
    /\ folder' = "present"
    /\ UNCHANGED <<baseVars, dedupeVars, moreVars, inits, qr, lastError, emitted,
                   registered, loggingOut, sends>>

\* init() threw at ensureDir, at the credential load or in makeWASocket; the
\* session folder was made before the failure or was not
SessInitThrows(made) ==
    /\ ipc = "running"
    /\ ipc' = "idle"
    /\ lastError' = InitCatch(lastError).lastError
    /\ lastInit' = InitCatch(lastError).ended
    /\ folder' = IF made THEN "present" ELSE folder
    /\ UNCHANGED <<baseVars, dedupeVars, moreVars, inits, sock, ws, qr, emitted,
                   registered, loggingOut, sends>>

\* connection.update carrying a pairing challenge (a socket emits them while
\* it waits to be paired, before it is open): this.qr is set and the 'qr'
\* webhook is dispatched, with or without the rendered image
QrSignal(k) ==
    /\ k \in DOMAIN ws
    /\ ws[k].state = "connecting"
    /\ emitted.qr < MaxQr
    /\ qr' = "qr"
    /\ emitted' = [emitted EXCEPT !.qr = @ + 1]
    /\ UNCHANGED <<baseVars, dedupeVars, moreVars, ipc, inits, lastInit, sock, ws,
                   lastError, folder, registered, loggingOut, sends>>

\* the challenge was answered: the credentials of socket k hold an account now
Paired(k) ==
    /\ k \in DOMAIN ws
    /\ ws[k].state = "connecting"
    /\ ~ws[k].user
    /\ ws' = [ws EXCEPT ![k].user = TRUE]
    /\ UNCHANGED <<baseVars, dedupeVars, moreVars, ipc, inits, lastInit, sock, qr,
                   lastError, emitted, folder, registered, loggingOut, sends>>

\* an open branch that leaves this.qr as it is
OnOpenKeepsQr(q) == q
\* the open branch of the handler: this.qr = undefined
OnOpen(q) == "undefined"

\* connection === 'open' on socket k (a socket opens when it has logged in)
ConnectionOpen(k) ==
    /\ k \in DOMAIN ws
    /\ ws[k].state = "connecting"
    /\ ws[k].user
    /\ ws' = [ws EXCEPT ![k].state = "open"]
    /\ qr' = OnOpen(qr)
    /\ emitted' = [emitted EXCEPT !.open = @ + 1]
    /\ UNCHANGED <<baseVars, dedupeVars, moreVars, ipc, inits, lastInit, sock,
                   lastError, folder, registered, loggingOut, sends>>

\* The close branch of the handler for socket k closing with status `code`:
\* this.lastError is set, then this.init() runs to its first await or
\* fs.remove(sessionPath) is begun.
SessOnClose(k, code) ==
    /\ ws' = [ws EXCEPT ![k].state = "closed"]
    /\ lastError' = "Connection closed"
    /\ IF shouldReconnect(code)
       THEN /\ ipc' = "running"
            /\ inits' = inits + 1
            /\ UNCHANGED folder
       ELSE /\ folder' = "removing"
            /\ UNCHANGED <<ipc, inits>>

\* connection === 'close' on socket k
ConnectionClose(k, code) ==
    /\ SessUp(k)
    /\ shouldReconnect(code) => inits < MaxSockets
    /\ SessOnClose(k, code)
    /\ UNCHANGED <<baseVars, dedupeVars, moreVars, lastInit, sock, qr, emitted,
                   registered, loggingOut, sends>>

\* fs.remove(sessionPath) of the logged-out close resolved
FolderRemoved ==
    /\ folder = "removing"
    /\ folder' = "absent"
    /\ UNCHANGED <<baseVars, dedupeVars, moreVars, ipc, inits, lastInit, sock, ws, qr,
                   lastError, emitted, registered, loggingOut, sends>>

\* removeInstance of the instance's id: logout() returns at once when
\* this.sock is unset and the entry is deleted, else it awaits sock.logout()
SessLogoutCalled ==
    /\ registered
    /\ loggingOut = 0
    /\ IF sock = 0
       THEN registered' = FALSE /\ UNCHANGED loggingOut
       ELSE loggingOut' = sock /\ UNCHANGED registered
    /\ UNCHANGED <<baseVars, dedupeVars, moreVars, ipc, inits, lastInit, sock, ws, qr,
                   lastError, emitted, folder, sends>>

\* sock.logout() resolved: the socket ended with DisconnectReason.loggedOut
\* (its close handler runs if it was still up), this.sock = undefined, the
\* entry is deleted
SessLogoutResolves ==
    /\ loggingOut # 0
    /\ loggingOut' = 0
    /\ IF SessUp(loggingOut)
       THEN SessOnClose(loggingOut, loggedOut)
       ELSE UNCHANGED <<ws, lastError, ipc, inits, folder>>
    /\ sock' = 0
    /\ registered' = FALSE
    /\ UNCHANGED <<baseVars, dedupeVars, moreVars, lastInit, qr, emitted, sends>>

\* sock.logout() rejected: removeInstance rethrows
SessLogoutRejects ==
    /\ loggingOut # 0
    /\ loggingOut' = 0
    /\ UNCHANGED <<baseVars, dedupeVars, moreVars, ipc, inits, lastInit, sock, ws, qr,
                   lastError, emitted, folder, registered, sends>>
\* ---- the routes that read or use the instance
getQRCode == qr

\* POST /sessions/:id for the registered instance: what it answers
Status ==
    [status |-> IF sock # 0 /\ ws[sock].user THEN "connected" ELSE "initializing",
     qr |-> IF getQRCode = "undefined" THEN "null" ELSE getQRCode,
     error |-> IF lastError = "undefined" THEN "null" ELSE lastError]

\* what a send request finds: no socket, a socket without user, or neither
SendPre ==
    IF sock = 0 THEN "nosock" ELSE IF ~ws[sock].user THEN "nouser" ELSE "ok"

Reply(s, code) == [s EXCEPT !.pc = "replied", !.reply = code]

\* "await instance.sock.sendMessage(...)" is reached: a TypeError when
\* this.sock is unset by now, else the call is made on the socket held now
CallSendMessage(s) ==
    IF sock = 0 THEN Reply(s, 500) ELSE [s EXCEPT !.pc = "sending", !.sent = TRUE]

\* a route that sends without looking at sock.user
SendChecksNoUser(s, media) ==
    IF sock = 0 THEN Reply(s, 500)
    ELSE IF media THEN [s EXCEPT !.pc = "download"]
    ELSE CallSendMessage(s)
\* POST /messages/send up to its first await after getInstance: 'Socket not
\* initialized' (500), 'Session not connected' (401), else the media is
\* fetched or, for a text, sendMessage is called
SendChecks(s, media) ==
    IF sock = 0 THEN Reply(s, 500)
    ELSE IF ~ws[sock].user THEN Reply(s, 401)
    ELSE IF media THEN [s EXCEPT !.pc = "download"]
    ELSE CallSendMessage(s)

\* POST /messages/send for the instance's id, with or without a media URL
SendCalled(media) ==
    /\ registered
    /\ Len(sends) < MaxSends
    /\ sends' = Append(sends,
          SendChecks([pre |-> SendPre, pc |-> "called", reply |-> 0,
                      sent |-> FALSE, stored |-> FALSE], media))
    /\ UNCHANGED <<baseVars, dedupeVars, moreVars, ipc, inits, lastInit, sock, ws, qr,
                   lastError, emitted, folder, registered, loggingOut>>

\* axios.get of the media URL settled
DownloadSettles(i, ok) ==
    /\ i \in DOMAIN sends
    /\ sends[i].pc = "download"
    /\ sends' = [sends EXCEPT ![i] = IF ok THEN CallSendMessage(@) ELSE Reply(@, 500)]
    /\ UNCHANGED <<baseVars, dedupeVars, moreVars, ipc, inits, lastInit, sock, ws, qr,
                   lastError, emitted, folder, registered, loggingOut>>

\* sock.sendMessage settled: storeOutboundMessage is called (not awaited) and
\* the route answers 'sent', or the route answers 500
SendMessageSettles(i, ok) ==
    /\ i \in DOMAIN sends
    /\ sends[i].pc = "sending"
    /\ sends' = [sends EXCEPT ![i] =
          IF ok THEN Reply([@ EXCEPT !.stored = TRUE], 200) ELSE Reply(@, 500)]
    /\ UNCHANGED <<baseVars, dedupeVars, moreVars, ipc, inits, lastInit, sock, ws, qr,
                   lastError, emitted, folder, registered, loggingOut>>

SessNext ==
    \/ SessInitStarts
    \/ \E u \in BOOLEAN : SessSocketMade(u)
    \/ \E made \in BOOLEAN : SessInitThrows(made)
    \/ \E k \in 1..MaxSockets : QrSignal(k)
    \/ \E k \in 1..MaxSockets : Paired(k)
    \/ \E k \in 1..MaxSockets : ConnectionOpen(k)
    \/ \E k \in 1..MaxSockets, code \in CloseCodes : ConnectionClose(k, code)
    \/ FolderRemoved
    \/ SessLogoutCalled
    \/ SessLogoutResolves
    \/ SessLogoutRejects
    \/ \E media \in BOOLEAN : SendCalled(media)
    \/ \E i \in 1..MaxSends, ok \in BOOLEAN : DownloadSettles(i, ok)
    \/ \E i \in 1..MaxSends, ok \in BOOLEAN : SendMessageSettles(i, ok)

SpecSession == PacerInit /\ [][SessNext]_vars

\* C25: an init() that throws sets lastError to the initialization failure
\* and rejects; from then on a status query reports that error and no init()
\* of the instance is called again.
C25_InitFailureRetained ==
    [][/\ (ipc = "running" /\ ipc' = "idle" /\ Len(ws') = Len(ws)) =>
             (lastError' = "Initialization failed" /\ lastInit' = "threw")
       /\ lastInit = "threw" =>
             (Status'.error = "Initialization failed" /\ inits' = inits /\ lastInit' = "threw")]_vars

\* the init() a close handler called failed, and the instance went on living
\* (a send was refused, a removal was asked for)
C25_Witness ==
    /\ lastInit = "threw"
    /\ inits = 2
    /\ Status.error = "Initialization failed"
    /\ loggingOut # 0
    /\ \E i \in DOMAIN sends : sends[i].pc = "replied"

Connected == sock # 0 /\ ws[sock].state = "open"

\* C26: handling a connection-open signal leaves this.qr unset and dispatches
\* one 'connection' webhook; while the instance's socket is open neither the
\* status query nor getQRCode reports a pairing challenge.
C26_OpenClearsQr ==
    /\ [][\A k \in DOMAIN ws :
            (ws[k].state = "connecting" /\ ws'[k].state = "open") =>
               (qr' = "undefined" /\ emitted' = [emitted EXCEPT !.open = @ + 1])]_vars
    /\ [](Connected => (getQRCode = "undefined" /\ Status.qr = "null"))

\* a second socket of the instance opened after its first had shown a challenge
C26_Witness ==
    /\ Connected
    /\ sock = 2
    /\ emitted.qr >= 1
    /\ emitted.open >= 1

\* C27: a send request that finds no socket or a socket without user is
\* answered with an error at once, sendMessage is never called for it and
\* no outbound row is written for it.
C27_SendRefused ==
    \A i \in DOMAIN sends :
        sends[i].pre # "ok" =>
            /\ sends[i].pc = "replied"
            /\ sends[i].reply \in {401, 500}
            /\ ~sends[i].sent
            /\ ~sends[i].stored

\* a request refused for want of a user, and a later one sent and stored
C27_Witness ==
    \E i, k \in DOMAIN sends :
        /\ i < k
        /\ sends[i].pre = "nouser" /\ sends[i].reply = 401
        /\ sends[k].stored
\* a history-sync or chats.* event is handled in this step
CacheEventHandled ==
    \/ \E cs \in SUBSET Jids, ms \in MsgBatches : HistorySet(cs, ms)
    \/ \E cs \in SUBSET Jids : ChatsUpsert(cs) \/ ChatsUpdate(cs) \/ ChatsDelete(cs)

\* C30: handling a history-sync, chats.upsert, chats.update or chats.delete
\* event leaves the deduper's entries as they are, makes no store call and
\* dispatches no webhook.
C30_CacheEventsTouchCacheOnly ==
    [][\/ UNCHANGED <<dcache, storeCalls, rows, sessionCache, hooks, emitted>>
       \/ ~CacheEventHandled]_vars

\* the events filled the cache (a chat, and a message whose id the deduper
\* could hold) and the deduper holds nothing
C30_Witness ==
    /\ \E j \in chats : \E m \in Entries(messagesByChat[j]) : m.id \in MsgIds
    /\ \A k \in MsgIds : dcache[k] = Never
    /\ \A k \in MsgIds : storeCalls[k] = <<>> /\ hooks[k] = <<>>

\* ---- the filters of the messages.upsert handler
\* A message as the socket delivers it: [id, fromMe, remoteJid, message],
\* message being "the payload is there".  The batches drawn hold messages
\* with at most one reason to be passed over.
GROUP == "120363000000000000@g.us"
STATUS == "status@broadcast"
endsWithGroup(j) == j = GROUP

RawMsgs ==
    {m \in [id : MsgIds, fromMe : BOOLEAN, remoteJid : {PN, GROUP, STATUS},
            message : BOOLEAN] :
        \/ ~m.fromMe /\ m.message
        \/ m.remoteJid = PN /\ (m.fromMe # ~m.message)}
\* the batches of at most n messages
RawBatches(n) == UNION {[1..k -> RawMsgs] : k \in 1..n}

\* filters that let the instance's own messages through
SkipsButOwn(m) == endsWithGroup(m.remoteJid) \/ m.remoteJid = STATUS \/ ~m.message
\* the four `continue` statements ahead of the deduper
Skips(m) ==
    m.fromMe \/ endsWithGroup(m.remoteJid) \/ m.remoteJid = STATUS \/ ~m.message

\* the batch as the loop sees it: a filter depends on its message alone
Filtered(msgs) == [i \in DOMAIN msgs |-> IF Skips(msgs[i]) THEN "skip" ELSE msgs[i].id]

\* 'messages.upsert' called with a 'notify' batch of messages
MessagesUpsertRaw(s, msgs) == MessagesUpsert(s, Filtered(msgs))

IntakeNext ==
    \/ \E s \in Sessions, msgs \in RawBatches(MaxMessages - Delivered(events)) :
          MessagesUpsertRaw(s, msgs)
    \/ \E e \in DOMAIN events, m \in {"unsupported", "failed", "saved"} : MediaSettles(e, m)
    \/ \E e \in DOMAIN events, r \in {"info", "null", "error"} : SessionSettles(e, r)
    \/ \E e \in DOMAIN events, r \in {"found", "null", "error"} : LeadSettles(e, r)
    \/ \E e \in DOMAIN events, ok \in BOOLEAN : InsertSettles(e, ok)
    \/ DedupeTick

SpecIntake == PacerInit /\ [][IntakeNext]_vars

\* message m is self-sent, addressed to a group or to the status broadcast,
\* or has no payload
PassedOver(m) ==
    m.fromMe \/ m.remoteJid = GROUP \/ m.remoteJid = STATUS \/ ~m.message

\* The batch the handler holds as `ids` may have been one in which every
\* message that carries id k is one passed over.
OnlyPassedOver(ids, k) ==
    \A i \in DOMAIN ids : \E m \in RawMsgs :
        /\ Filtered(<<m>>)[1] = ids[i]
        /\ m.id = k => PassedOver(m)

\* the batch that arrived in this step, as the handler holds it
Arrived == events'[Len(events')].ids

\* a handler that was awaiting went on, in this step, to a message of its
\* batch that carries id k and was not passed over
ResumedTo(k) ==
    \E e \in DOMAIN events : \E j \in DOMAIN events[e].ids :
        /\ j > events[e].i
        /\ events[e].ids[j] = k
        /\ events'[e].i >= j

\* C28: the handling of a batch never tests or marks in the deduper an id
\* that the batch carries on passed-over messages only: the deduper's entry
\* of an id changes only when a batch arrives that carries the id on a
\* message not passed over, or when a handler resumes to such a message.  So
\* a later message with the id is judged as if the passed-over one had never
\* come.
C28_SkippedNeverDeduped ==
    [][\/ dcache' = dcache
       \/ \A k \in MsgIds :
             \/ dcache'[k] = dcache[k]
             \/ IF Len(events') > Len(events)
                THEN ~OnlyPassedOver(Arrived, k)
                ELSE ResumedTo(k)]_vars

\* an id came on a passed-over message first and on a message that was
\* accepted afterwards
C28_Witness ==
    \E e1, e2 \in DOMAIN events :
        /\ e1 < e2
        /\ events[e1].ids = <<"skip">>
        /\ events[e2].pc = "media"
        /\ Len(events[e2].ids) = 1
        /\ dcache[events[e2].ids[1]] # Never
\* ------------------------------------------- the order of the pipeline
\* the store call of the message handler e is at is pending
StorePending(ev) == ev.pc \in {"session", "lead", "insert"}

\* the message handler e is at, before the step
Current(e) == events[e].ids[events[e].i]

\* C29: a message that passed the filters and the deduper is, in the step
\* that accepts it (where senderJid is computed), left awaiting its media
\* capture; storeInboundMessage is called for it only in the step where that
\* await settles; its 'message' webhook is dispatched only in a step where
\* its store call settles, and at most once for that call; and a handler
\* goes through its batch forwards only, leaving a message only when its
\* store call has settled.
C29_PipelineOrder ==
    [][\/ UNCHANGED <<events, storeCalls, hooks>>
       \/ /\ \A e \in DOMAIN events' :
               IF e \in DOMAIN events
               THEN LET a == events[e]
                        b == events'[e]
                    IN /\ b.ids = a.ids /\ b.i >= a.i
                       /\ b.i > a.i => (StorePending(a) /\ b.pc \in {"media", "done"})
                       /\ (b.i = a.i /\ b.pc # a.pc) =>
                             \/ a.pc = "media" /\ b.pc = "session"
                             \/ a.pc = "session" /\ b.pc = "lead"
                             \/ a.pc = "lead" /\ b.pc = "insert"
                             \/ StorePending(a) /\ b.pc = "aborted"
               ELSE events'[e].pc \in {"media", "done"}
          /\ \A id \in MsgIds :
               /\ storeCalls'[id] # storeCalls[id] =>
                     /\ Len(storeCalls'[id]) = Len(storeCalls[id]) + 1
                     /\ \E e \in DOMAIN events :
                           /\ events[e].pc = "media" /\ Current(e) = id
                           /\ events'[e].pc = "session"
               /\ hooks'[id] # hooks[id] =>
                     /\ Len(hooks'[id]) = Len(hooks[id]) + 1
                     /\ \E e \in DOMAIN events :
                           /\ StorePending(events[e]) /\ Current(e) = id
                           /\ events'[e].i > events[e].i]_vars

\* one handler went through a batch of two accepted messages, and each had
\* its store call and its webhook
C29_Witness ==
    \E e \in DOMAIN events :
        /\ Len(events[e].ids) = 2 /\ events[e].pc = "done"
        /\ events[e].ids[1] # events[e].ids[2]
        /\ \A j \in 1..2 : /\ events[e].ids[j] \in MsgIds
                           /\ storeCalls[events[e].ids[j]] # <<>>
                           /\ hooks[events[e].ids[j]] # <<>>

\* ------------------------------------------- one message, two identities
\* The messages.upsert handler keys a message twice: cacheMessages files it
\* under resolveStorageJid(remoteJid, remoteJidAlt), and the loop hands
\* senderJid to storeInboundMessage for the lead lookup.  The messages here
\* are direct ones (groups never reach the store call), so key.participant
\* is not set.  LID2 is an alternate that is not in phone-number form.
LID2 == "88003344@lid"
Alts == {NoAlt, PN, LID, LID2}
KeyForms == {k \in [remoteJid : Jids, remoteJidAlt : Alts] : k.remoteJidAlt # k.remoteJid}
\* The storeInboundMessage the handler calls takes senderJid as its third
\* argument ("caller"); the one in the writer's source takes (sessionId, msg)
\* and looks the lead up by key.participant || key.remoteJid ("writer").
Writers == {"caller", "writer"}

endsWithAnyLid(j) == j \in {LID, LID2}

\* const senderJid = remoteJid?.endsWith('@lid') ? (key.remoteJidAlt || remoteJid) : remoteJid
senderJid(remoteJid, remoteJidAlt) ==
    IF endsWithAnyLid(remoteJid)
    THEN (IF remoteJidAlt # NoAlt THEN remoteJidAlt ELSE remoteJid)
    ELSE remoteJid

\* the identity resolveLead is called with
leadJid(w, k) ==
    IF w = "caller" THEN senderJid(k.remoteJid, k.remoteJidAlt) ELSE k.remoteJid

\* one accepted message of a 'notify' batch, cached and stored
KeyedUpsert(k, w) ==
    /\ Len(keyed) < MaxKeyed
    /\ keyed' = Append(keyed,
            [remoteJid |-> k.remoteJid, remoteJidAlt |-> k.remoteJidAlt,
             cached |-> resolveStorageJid(k.remoteJid, k.remoteJidAlt),
             lead |-> leadJid(w, k)])
    /\ UNCHANGED <<baseVars, sessVars, dedupeVars, inboundVars, cacheVars,
                   chatInfo, nChatEvents, fetches, credAccess>>

IdentityNext == \E k \in KeyForms, w \in Writers : KeyedUpsert(k, w)

SpecIdentity == PacerInit /\ [][IdentityNext]_vars

\* C31: every message is cached under the identity its lead is looked up by,
\* whatever the forms of its primary and alternate identities.
C31_OneIdentity ==
    \A i \in DOMAIN keyed : keyed[i].cached = keyed[i].lead

\* ----------------------------------------------------- the chat records
\* this.chats as records: what upsertChats and the chats.update handler
\* merge into them, and the timestamp getChats sorts by and reports.  A chat
\* object of an event carries conversationTimestamp, lastMessageRecvTimestamp,
\* both or neither; a field it does not carry keeps the value of the record
\* ("...prev, ...chat").  Timestamps are in seconds, as WhatsApp sends them
\* (below the 10^12 from which the code takes a value for milliseconds); 0 is
\* what longToNumber makes of a field that is not set.
ChatStamps == {0, 1, 2}
ChatObjects ==
    UNION {[fs -> ChatStamps] : fs \in SUBSET {"conversationTimestamp", "lastMessageRecvTimestamp"}}

\* this.chats.get(jid) || {}
ChatPrev(j) == chatInfo[j]

\* { ...prev, ...chat, id: jid, isGroup }
ChatMerge(prev, chat) ==
    [present |-> TRUE,
     cts |-> IF "conversationTimestamp" \in DOMAIN chat
             THEN chat["conversationTimestamp"] ELSE prev.cts,
     lm |-> IF "lastMessageRecvTimestamp" \in DOMAIN chat
            THEN chat["lastMessageRecvTimestamp"] ELSE prev.lm]

\* a value of the two fields in milliseconds
StampMs(n) == IF n > 0 THEN n * 1000 ELSE 0

getChatSortTimestamp(chat) ==
    IF chat.cts > 0 THEN StampMs(chat.cts)
    ELSE IF chat.lm > 0 THEN StampMs(chat.lm)
    ELSE 0

\* getChats: the ids in the order listed, latest activity first (the sort is
\* stable: chats of equal timestamp stay in insertion order, which the model
\* takes to be PN before LID)
getChats ==
    LET present == {j \in Jids : chatInfo[j].present}
        ts(j) == getChatSortTimestamp(chatInfo[j])
    IN IF present = Jids
       THEN (IF ts(LID) > ts(PN) THEN <<LID, PN>> ELSE <<PN, LID>>)
       ELSE IF present = {} THEN <<>>
       ELSE <<CHOOSE j \in present : TRUE>>

\* lastMessageTimestamp of a listed chat: getChatSortTimestamp(chat) || null
lastMessageTimestamp(j) == getChatSortTimestamp(chatInfo[j])

\* 'messaging-history.set' and 'chats.upsert' (this.upsertChats(chats)) and
\* 'chats.update' (the handler's own loop) merge a chat object the same way
ChatEventApplied(j, chat) ==
    /\ nChatEvents < MaxChatEvents
    /\ nChatEvents' = nChatEvents + 1
    /\ chatInfo' = [chatInfo EXCEPT ![j] = ChatMerge(ChatPrev(j), chat)]
    /\ UNCHANGED <<baseVars, sessVars, dedupeVars, inboundVars, cacheVars, keyed, fetches, credAccess>>

\* 'chats.delete': this.chats.delete(jid)
ChatDeleted(j) ==
    /\ nChatEvents < MaxChatEvents
    /\ chatInfo[j].present
    /\ nChatEvents' = nChatEvents + 1
    /\ chatInfo' = [chatInfo EXCEPT ![j] = [present |-> FALSE, cts |-> 0, lm |-> 0]]
    /\ UNCHANGED <<baseVars, sessVars, dedupeVars, inboundVars, cacheVars, keyed, fetches, credAccess>>

ChatsNext ==
    \/ \E j \in Jids, chat \in ChatObjects : ChatEventApplied(j, chat)
    \/ \E j \in Jids : ChatDeleted(j)

SpecChats == PacerInit /\ [][ChatsNext]_vars

\* C33: the timestamp a chat is sorted by and listed with is the later of its
\* conversationTimestamp and its lastMessageRecvTimestamp, in milliseconds.
C33_LaterOfTheTwo ==
    \A j \in Jids : chatInfo[j].present =>
        /\ lastMessageTimestamp(j) = Max(StampMs(chatInfo[j].cts), StampMs(chatInfo[j].lm))
        /\ \A i \in DOMAIN getChats : \A k \in DOMAIN getChats :
              i < k => Max(StampMs(chatInfo[getChats[i]].cts), StampMs(chatInfo[getChats[i]].lm))
                         >= Max(StampMs(chatInfo[getChats[k]].cts), StampMs(chatInfo[getChats[k]].lm))

\* C34: no history-sync, chats.upsert or chats.update event makes the
\* last-activity timestamp of a chat that is there smaller than it was.
C34_ActivityNeverDecreases ==
    [][\A j \in Jids : (chatInfo[j].present /\ chatInfo'[j].present) =>
            getChatSortTimestamp(chatInfo'[j]) >= getChatSortTimestamp(chatInfo[j])]_vars

\* ------------------------------------------- the credential directory
\* Who touches the session directory of one instance: saveCreds() inside
\* saveMutex.runExclusive (the saves above), useMultiFileAuthState(sessionPath)
\* of every init(), and fs.remove(sessionPath) of the loggedOut close.  The
\* last two are called outside the mutex.
\* init() reached "await useMultiFileAuthState(sessionPath)": the first
\* init(), or the one the close handler of the latest socket called
CredLoadStarts ==
    /\ credAccess = "none"
    /\ socks < MaxSockets
    /\ credAccess' = "loading"
    /\ UNCHANGED <<baseVars, sessVars, dedupeVars, inboundVars, cacheVars,
                   keyed, chatInfo, nChatEvents, fetches>>

\* the load settled; init() goes on to makeWASocket and registers atomicSave
CredLoadSettles ==
    /\ credAccess = "loading"
    /\ credAccess' = "none"
    /\ socks' = socks + 1
    /\ UNCHANGED <<pacerVars, harnessVars, booted, instances, sid, initPc, initCount,
                   schedCount, sockDefined, conn, cleanup, dir, removes, nRemoves,
                   rets, nCalls, saves, sessVars, dedupeVars, inboundVars, cacheVars,
                   keyed, chatInfo, nChatEvents, fetches>>

\* the latest socket closed with loggedOut: "await fs.remove(sessionPath)"
CredRemoveStarts ==
    /\ credAccess = "none"
    /\ socks >= 1
    /\ credAccess' = "removing"
    /\ UNCHANGED <<baseVars, sessVars, dedupeVars, inboundVars, cacheVars,
                   keyed, chatInfo, nChatEvents, fetches>>

CredRemoveSettles ==
    /\ credAccess = "removing"
    /\ credAccess' = "none"
    /\ UNCHANGED <<baseVars, sessVars, dedupeVars, inboundVars, cacheVars,
                   keyed, chatInfo, nChatEvents, fetches>>

CredDirNext ==
    \/ CredLoadStarts
    \/ CredLoadSettles
    \/ CredRemoveStarts
    \/ CredRemoveSettles
    \/ \E k \in 1..MaxSockets : CredsUpdate(k)
    \/ \E k \in 1..MaxCredUpdates : SaveCredsResolves(k)
    \/ \E k \in 1..MaxCredUpdates : SaveCredsRejects(k)

SpecCredDir == PacerInit /\ [][CredDirNext]_vars

\* C32: while a saveCreds() of the instance is writing, nothing else touches
\* its credential directory: no other save, no credential load of an init(),
\* no removal by the loggedOut close.
C32_DirAccessExclusive ==
    \A k \in DOMAIN saves : saves[k].st = "writing" =>
        /\ credAccess = "none"
        /\ \A i \in DOMAIN saves : i # k => saves[i].st # "writing"

\* ------------------------------------------- init() and the version fetch
\* init() between the credential load and makeWASocket: fetchVersion() races
\* fetchLatestBaileysVersion() against a 5 s timer, and its .catch returns
\* the built-in version.  fetches holds, per init() whose fetch settled,
\* [init, result].
FetchResults == {"ok", "failed", "timeout"}

\* a catch that keeps the failure as the instance's last error
OnFetchFailureRetained(prev) == "Version fetch failed"
\* the .catch of fetchVersion(): logs, returns the fallback version, and
\* leaves this.lastError as it is
OnFetchFailure(prev) == prev

\* the version fetch of the running init() has settled
Fetched == fetches # <<>> /\ fetches[Len(fetches)].init = inits

\* "await fetchVersion().catch(...)" of the running init() settles
VersionFetchSettles(r) ==
    /\ ipc = "running"
    /\ ~Fetched
    /\ fetches' = Append(fetches, [init |-> inits, result |-> r])
    /\ lastError' = IF r = "ok" THEN lastError ELSE OnFetchFailure(lastError)
    /\ UNCHANGED <<baseVars, dedupeVars, inboundVars, cacheVars, keyed, chatInfo,
                   nChatEvents, credAccess, ipc, inits, lastInit, sock, ws, qr,
                   emitted, folder, registered, loggingOut, sends>>

\* makeWASocket is reached after the version fetch only
SetupSocketMade(u) == Fetched /\ SessSocketMade(u)

SetupNext ==
    \/ SessInitStarts
    \/ \E r \in FetchResults : VersionFetchSettles(r)
    \/ \E u \in BOOLEAN : SetupSocketMade(u)
    \/ \E made \in BOOLEAN : SessInitThrows(made)
    \/ \E k \in 1..MaxSockets : Paired(k)
    \/ \E k \in 1..MaxSockets : ConnectionOpen(k)
    \/ \E k \in 1..MaxSockets, code \in CloseCodes : ConnectionClose(k, code)
    \/ FolderRemoved

SpecSetup == PacerInit /\ [][SetupNext]_vars

\* the version fetch of some init() failed or timed out
FetchFailed == \E i \in DOMAIN fetches : fetches[i].result # "ok"

QueryOutcomes == {"info", "null", "error"}

\* C36: the writer's session cache holds a session only after a lookup that
\* found its mapping: a write for a session whose mapping is cached gets the
\* cached mapping without a query, and a write for any other session, one
\* whose earlier lookup found no mapping included, runs the query (whose
\* outcome is open).
C36_CachedOnlyWhenFound ==
    \A s \in Sessions :
        /\ sessionCache[s] = "info" => resolveSession(s) = {"info"}
        /\ sessionCache[s] # "info" => resolveSession(s) = QueryOutcomes

\* ----------------------------------------------- at most once per window
\* handler e comes, in this step, to await the media capture of a message it
\* was not at before
Accepts(e) ==
    /\ events'[e].pc = "media"
    /\ e \in DOMAIN events => events'[e].i > events[e].i

\* C39: a handler takes up a message only if the deduper does not hold its
\* id, and the same step marks the id, before the media capture, the store
\* call and the webhook of the message; a step in which the processing of a
\* message raises leaves the mark, and stores and forwards nothing.  So a
\* message that comes again with the id while the mark is held is dropped,
\* whether the first one was stored and forwarded or raised.
C39_AtMostOncePerWindow ==
    [][\/ events' = events
       \/ \A e \in DOMAIN events' :
             /\ Accepts(e) =>
                   LET id == events'[e].ids[events'[e].i] IN
                   /\ ~NodeCacheHas(dcache, id, dnow)
                   /\ NodeCacheHas(dcache', id, dnow')
             /\ (e \in DOMAIN events /\ events'[e].pc = "aborted" /\ events[e].pc # "aborted") =>
                   /\ dcache' = dcache
                   /\ UNCHANGED <<storeCalls, hooks, rows>>]_vars

\* the processing of a message raised, the message came again at once, and
\* the second one was dropped: one store call, no webhook, no row
C39_Witness ==
    /\ dnow = 0
    /\ \E e1, e2 \in DOMAIN events :
          /\ e1 < e2
          /\ events[e1].pc = "aborted"
          /\ events[e2].pc = "done"
          /\ events[e2].ids = <<events[e1].ids[events[e1].i]>>
          /\ Len(storeCalls[events[e2].ids[1]]) = 1
          /\ hooks[events[e2].ids[1]] = <<>>
    /\ rows = <<>>

\* ------------------------------------------------- the last error stays
\* a socket of the instance closes in this step
ClosesNow == \E k \in DOMAIN ws : SessUp(k) /\ ws'[k].state = "closed"

\* an init() of the instance throws in this step
ThrowsNow == ipc = "running" /\ ipc' = "idle" /\ lastInit' = "threw" /\ Len(ws') = Len(ws)

\* C40: this.lastError, once set, is never unset; an init() that succeeds
\* and a connection-open signal leave it as it is; it changes only in a step
\* where a socket closes or an init() throws, which overwrite it.
C40_LastErrorStays ==
    [][\/ lastError' = lastError
       \/ /\ lastError' # "undefined"
          /\ \/ ClosesNow /\ lastError' = "Connection closed"
             \/ ThrowsNow /\ lastError' = "Initialization failed"]_vars

\* the instance lost its first socket, its second one is open and holds an
\* account, and the status query answers "connected" with the old error
C40_Witness ==
    /\ Connected
    /\ sock = 2
    /\ Status.status = "connected"
    /\ Status.error = "Connection closed"
    /\ lastInit = "returned"

Init ==
    /\ PacerOnlyInit
    /\ RegInit
    /\ CredsInit
    /\ ExtInit
    /\ dir \in [Ids -> BOOLEAN]

\* What bootstrap, the HTTP routes, init() and the sockets do.
Steps ==
    \/ RestoreSessions
    \/ \E id \in Ids : GetInstance(id)
    \/ \E id \in Ids : RemoveInstance(id)
    \/ \E c \in RemoveCalls : LogoutResolves(c)
    \/ \E c \in RemoveCalls : LogoutRejects(c)
    \/ \E o \in ObjIds : SocketCreated(o)
    \/ \E o \in ObjIds : InitFails(o)
    \/ \E o \in ObjIds, code \in CloseCodes : ConnClose(o, code)
    \/ \E o \in ObjIds : FsRemoveDone(o)

\* The system with the length of the pacer's delay left out: every
\* behaviour of the clocked system is one of these.
Next ==
    \/ Steps
    \/ \E o \in ObjIds : PacerDelayEnds(o)

Spec == Init /\ [][Next]_vars

\* The system with its clock.
NextTimed ==
    \/ Steps
    \/ \E o \in ObjIds : PacerTimerFires(o)
    \/ Elapse

SpecTimed == Init /\ [][NextTimed]_vars

\* ------------------------------------------------ properties of the registry
\* C1: the getInstance calls for one id that come before the first init() of
\* the id's object has completed all return the one object registered for the
\* id, and that object was scheduled on the pacer once and only once.
C1_RacingCallsShareOneObject ==
    /\ \A id \in Ids :
          rets[id] # {} =>
             /\ rets[id] = {instances[id]}
             /\ schedCount[instances[id]] = 1
             /\ initCount[instances[id]] <= 1
    /\ \A o \in Objs : schedCount[o] = 1

C1_Witness ==
    \E id \in Ids :
        /\ nCalls[id] = 2
        /\ rets[id] # {}
        /\ initCount[instances[id]] = 1
        /\ Initializing(instances[id])

\* registered, initializing, or holding a connection
Live(o) == instances[sid[o]] = o \/ Initializing(o) \/ Alive(o)

\* C2: no two objects of one id are live at the same time.
C2_OneLivePerId ==
    \A o1, o2 \in Objs : (o1 # o2 /\ sid[o1] = sid[o2]) => ~(Live(o1) /\ Live(o2))

\* Object o handles a close with status code `code` in this step: its socket
\* closed by itself, or sock.logout() ended it.
ClosedWith(o, code) ==
    \/ ConnClose(o, code)
    \/ /\ code = loggedOut
       /\ Alive(o)
       /\ \E c \in RemoveCalls : c.obj = o /\ c.gen = initCount[o] /\ LogoutResolves(c)

\* C5: a close with the logged-out code leaves the object closed with its
\* cleanup begun and starts no init(), and the cleanup, when it is done, has
\* removed the session folder; a close with any other code calls init() once.
C5_CloseHandling ==
    [][/\ \A o \in ObjIds :
            (Alive(o) /\ conn'[o] = "closed") =>
               \A code \in CloseCodes :
                  \/ IF code = loggedOut
                     THEN /\ cleanup'[o] = "removing"
                          /\ initCount'[o] = initCount[o]
                          /\ initPc'[o] = "idle"
                     ELSE /\ cleanup'[o] = "none"
                          /\ initCount'[o] = initCount[o] + 1
                          /\ initPc'[o] = "running"
                  \/ ~ClosedWith(o, code)
       /\ \A o \in ObjIds :
            (cleanup[o] = "removing" /\ cleanup'[o] # "removing") =>
               (cleanup'[o] = "removed" /\ ~dir'[sid[o]])]_vars

C5_Witness ==
    \E o1, o2 \in Objs :
        /\ cleanup[o1] = "removed" /\ ~dir[sid[o1]] /\ conn[o1] = "closed"
        /\ cleanup[o2] = "none" /\ initCount[o2] = 2

\* C6: an object that has handled a logged-out close never starts an init()
\* and never holds a connection again, whatever is called and whatever
\* arrives; an object that initializes or connects for its id afterwards is
\* another object.
C6_LoggedOutIsTerminal ==
    [][\A o \in ObjIds :
          cleanup[o] # "none" =>
             /\ conn[o] = "closed" /\ conn'[o] = "closed"
             /\ initPc[o] = "idle" /\ initPc'[o] = "idle"
             /\ initCount'[o] = initCount[o]
             /\ cleanup'[o] # "none"]_vars

C6_Witness ==
    \E o1, o2 \in Objs :
        /\ o1 # o2 /\ sid[o1] = sid[o2]
        /\ cleanup[o1] = "removed"
        /\ instances[sid[o2]] = o2 /\ Alive(o2)

\* C10: an init() starts only when no other object is initializing and no
\* sooner than delayMs after the init() started before it.
C10_InitsPaced ==
    [][\A o \in ObjIds :
          initCount'[o] = initCount[o] + 1 =>
             /\ sinceStart >= delayMs
             /\ \A p \in ObjIds \ {o} : ~Initializing(p)]_vars

\* ---------------------------------------------- removal and the read routes
\* removeInstance(id) returns in this step: logout() found no socket and the
\* entry was deleted at once, or sock.logout() resolved
RemoveReturns(id) ==
    \/ /\ instances[id] # 0
       /\ ~sockDefined[instances[id]]
       /\ RemoveInstance(id)
    \/ \E c \in removes : sid[c.obj] = id /\ LogoutResolves(c)

\* removeInstance(id) throws in this step: sock.logout() rejected
RemoveThrows(id) == \E c \in removes : sid[c.obj] = id /\ LogoutRejects(c)

\* C21: a removeInstance(id) call made for a registered id, whatever the state
\* of the id's object, ends with the id absent from the registry; a call for
\* an id that is not registered is no step of the registry at all (the guard
\* of RemoveInstance), so a second removal changes nothing.
C21_RemoveUnregisters ==
    [][\A id \in Ids :
          (RemoveReturns(id) \/ RemoveThrows(id)) => instances'[id] = 0]_vars

\* C22: when removeInstance(id) has returned, the session folder of the id is
\* gone or its deletion (the fs.remove of the logged-out close) is under way.
C22_RemoveDeletesFolder ==
    [][\A id \in Ids :
          (instances[id] # 0 /\ RemoveReturns(id)) =>
              (~dir'[id] \/ cleanup'[instances[id]] = "removing")]_vars

\* this.instances.get(sessionId), the lookup of the read routes
getExistingInstance(id) == Lookup(instances, id)

\* GET /sessions/:id/qr: manager.getInstance(id), then instance.getQRCode()
GetSessionQr(id) == GetInstance(id)

\* GET /chats: manager.getExistingInstance(id), 404 when there is none, else
\* instance.getChats(limit)
GetChats(id) ==
    /\ booted
    /\ getExistingInstance(id) \in {0} \cup Objs
    /\ UNCHANGED vars

\* GET /chats/:jid/messages: manager.getExistingInstance(id), 404 when there
\* is none, else instance.getChatMessages(jid, limit, beforeTimestamp)
GetMessages(id) ==
    /\ booted
    /\ getExistingInstance(id) \in {0} \cup Objs
    /\ UNCHANGED vars

\* C23: the pairing-challenge, chat and message read routes, called for an id
\* that is not registered, register nothing and schedule no init().
C23_ReadRoutesCreateNothing ==
    [][\A id \in Ids :
          (instances[id] = 0 /\ (GetSessionQr(id) \/ GetChats(id) \/ GetMessages(id))) =>
              UNCHANGED <<instances, sid, queue, slots, schedCount, initPc, initCount>>]_vars

\* ------------------------------------------------- restoring at boot
\* init() of object o settles: its awaits are file operations and a version
\* fetch raced against a 5 s timer
InitSettles(o) == SocketCreated(o) \/ InitFails(o)

\* Every running init() settles and every delay of the pacer ends.
Progress ==
    \A o \in ObjIds : WF_vars(InitSettles(o)) /\ WF_vars(PacerDelayEnds(o))

\* The restored sessions on their own: what bootstrap, init(), the sockets,
\* the pacer and removals do when no route asks for a session that is not
\* registered.
RestoreNext ==
    \/ RestoreSessions
    \/ \E id \in Ids : RemoveInstance(id)
    \/ \E c \in RemoveCalls : LogoutResolves(c)
    \/ \E c \in RemoveCalls : LogoutRejects(c)
    \/ \E o \in ObjIds : SocketCreated(o)
    \/ \E o \in ObjIds : InitFails(o)
    \/ \E o \in ObjIds, code \in CloseCodes : ConnClose(o, code)
    \/ \E o \in ObjIds : FsRemoveDone(o)
    \/ \E o \in ObjIds : PacerDelayEnds(o)

SpecRestore == Init /\ [][RestoreNext]_vars /\ Progress

\* the init() of object o ended in its catch block and o has no socket
InitFailed(o) == initCount[o] >= 1 /\ initPc[o] = "idle" /\ conn[o] = "none"

Removed(o) == o \in Objs /\ instances[sid[o]] # o

\* C37: an object whose removal has returned starts no init() and comes to
\* hold no socket.  (An object holds no socket when its removal returns, and
\* only a queued or running init() can give it one or start another.)
C37_RemovedStaysDown ==
    [][\A o \in Objs :
          Removed(o) =>
             /\ initCount'[o] = initCount[o]
             /\ sockDefined'[o] => sockDefined[o]]_vars

\* C38: when sock.logout() rejects under removeInstance(id), the registry is
\* as it was: an id that was registered when the rejection came is still
\* registered and the lookup returns the same object.
C38_RemoveThrowsKeepsEntry ==
    [][\/ removes' = removes
       \/ \A id \in Ids :
             RemoveThrows(id) =>
                /\ instances' = instances
                /\ instances[id] # 0 => instances'[id] # 0
                /\ Lookup(instances', id) = getExistingInstance(id)]_vars

\* a removal was made and has ended, and every object ever constructed is
\* still the entry of its id and holds its socket: the removal threw
C38_Witness ==
    /\ nRemoves = 1 /\ removes = {}
    /\ Objs # {}
    /\ \A o \in Objs : instances[sid[o]] = o /\ sockDefined[o]

====
